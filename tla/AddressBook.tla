---------------------------- MODULE AddressBook ----------------------------
(***************************************************************************)
(* The address book: one list in the browser's storage, read and written   *)
(* as a whole by every operation of lib/local-address-book.ts, and the     *)
(* pages (tabs) that show it through hooks/useAddressBook.ts.  No button   *)
(* is locked while an operation runs, so a page may have several under     *)
(* way, and two tabs know nothing of each other.                           *)
(*                                                                         *)
(* A call is one such operation, from the click to its last reload, in     *)
(* steps between its awaits: load the list, save it, list it again.  Name  *)
(* and memo are one value (info), chain and lower-cased address another    *)
(* (key); a filter is the set of the pairs it lets through; dates and the  *)
(* order of the list are left out.                                         *)
(***************************************************************************)
EXTENDS Naturals, Sequences

CONSTANTS
    Page,      \* tabs that show the address book
    Call,      \* clicks, each of which happens at most once
    Key,       \* chain and address
    Info,      \* name and memo
    Filter,    \* filters of a page, sets of pairs of key and info
    OldBooks,  \* lists that may be stored when the pages open
    NoOne      \* no entry, no call, no change

VARIABLES
    stored,  \* the list in the browser's storage
    page,    \* per tab: what it shows, its filter, its offer to undo
    call     \* per click: its step, its arguments, the list it loaded

vars == <<stored, page, call>>

OldId == UNION {{b[i].id : i \in DOMAIN b} : b \in OldBooks}
Entry == [id : Call \cup OldId, key : Key, info : Info,
          deleted : BOOLEAN, uses : Nat]

\* An entry's id is a random UUID: a new one is named by the click it is made
\* in.  The lists are what the operations leave: each id once, and one active
\* entry at most of an address.
ASSUME BookAssumption ==
    /\ Call \cap OldId = {}
    /\ NoOne \notin Page \cup Call \cup Key \cup Info \cup Entry
    /\ NoOne \notin {"submit", "undo", "update", "remove", "markUsed", "reload"}
    /\ \A b \in OldBooks :
         /\ b \in Seq(Entry)
         /\ \A i, j \in DOMAIN b : b[i].id = b[j].id => i = j
         /\ \A i, j \in DOMAIN b :
              ~b[i].deleted /\ ~b[j].deleted /\ b[i].key = b[j].key => i = j

(***************************************************************************)
(* The store: what each operation makes of the list it loaded.             *)
(***************************************************************************)
Entries(book) == {book[i] : i \in DOMAIN book}
FirstOf(S) == CHOOSE i \in S : \A j \in S : i <= j

ActiveWith(book, k) == {i \in DOMAIN book : ~book[i].deleted /\ book[i].key = k}
DeletedWith(book, k) == {i \in DOMAIN book : book[i].deleted /\ book[i].key = k}
ActiveId(book, id) == {i \in DOMAIN book : ~book[i].deleted /\ book[i].id = id}

\* Mutant: a deleted entry is not restored but replaced.
CreatedAnew(book, c) ==
    LET a == call[c]
        rest == SelectSeq(book, LAMBDA e : e.key # a.key)
    IN  Append(rest, [id |-> c, key |-> a.key, info |-> a.info,
                      deleted |-> FALSE, uses |-> 0])

\* create: update the active entry of this address, or restore a deleted
\* one, or add a new one.
Created(book, c) ==
    LET a == call[c]
        hit == IF ActiveWith(book, a.key) # {} THEN ActiveWith(book, a.key)
                                               ELSE DeletedWith(book, a.key)
    IN  IF hit # {}
        THEN [book EXCEPT ![FirstOf(hit)].info = a.info,
                          ![FirstOf(hit)].deleted = FALSE]
        ELSE Append(book, [id |-> c, key |-> a.key, info |-> a.info,
                           deleted |-> FALSE, uses |-> 0])

\* Mutant: update looks for the address the entry had before.
DuplicateOfOld(book, a) ==
    /\ a.key # NoOne
    /\ \E i \in ActiveId(book, a.id) :
         \E j \in ActiveWith(book, book[i].key) : book[j].id # a.id

\* update refuses an address another active entry has.
Duplicate(book, a) ==
    /\ a.key # NoOne
    /\ \E i \in ActiveWith(book, a.key) : book[i].id # a.id

Updated(book, a) ==
    LET i == FirstOf(ActiveId(book, a.id))
    IN  [book EXCEPT ![i].info = IF a.info = NoOne THEN @ ELSE a.info,
                     ![i].key = IF a.key = NoOne THEN @ ELSE a.key]

Removed(book, a) == [book EXCEPT ![FirstOf(ActiveId(book, a.id))].deleted = TRUE]
Marked(book, a) == [book EXCEPT ![FirstOf(ActiveId(book, a.id))].uses = @ + 1]

Result(c) ==
    LET a == call[c]
    IN  CASE a.op \in {"submit", "undo"} -> Created(a.list, c)
          [] a.op = "update" -> Updated(a.list, a)
          [] a.op = "remove" -> Removed(a.list, a)
          [] a.op = "markUsed" -> Marked(a.list, a)

\* What an operation does next, having loaded a book: most throw on an entry
\* that is not there, remove takes it for removed.
NextStep(book, a) ==
    CASE a.op \in {"submit", "undo"} -> "save"
      [] a.op = "remove" /\ ActiveId(book, a.id) = {} -> "list"
      [] a.op \in {"update", "markUsed"} /\ ActiveId(book, a.id) = {} -> "done"
      [] a.op = "update" /\ Duplicate(book, a) -> "done"
      [] OTHER -> "save"

Listed(book, f) == {e \in Entries(book) : ~e.deleted /\ <<e.key, e.info>> \in f}

(***************************************************************************)
(* The pages.                                                              *)
(***************************************************************************)
Idle == [step |-> "free", page |-> NoOne, op |-> NoOne, id |-> NoOne,
         key |-> NoOne, info |-> NoOne, filter |-> {}, shown |-> NoOne,
         timer |-> NoOne, list |-> <<>>]
Over == [Idle EXCEPT !.step = "done"]

\* unseen and late are remembered for the properties: another tab wrote since
\* this one last read, or its last reading failed (the page says so); its last
\* reading was for an older filter.
PageOn(book) ==
    [items |-> Listed(book, Key \X Info), filter |-> Key \X Info, open |-> TRUE, done |-> FALSE,
     offer |-> NoOne, timer |-> NoOne, armed |-> {},
     unseen |-> FALSE, late |-> FALSE]

Init ==
    /\ stored \in OldBooks
    /\ page = [p \in Page |-> PageOn(stored)]
    /\ call = [c \in Call |-> Idle]

Running(p) == {c \in Call : call[c].page = p}
Submitting(p) == \E c \in Running(p) : call[c].op = "submit"

\* A click starts a call with the page's state of that moment.
Clicked(p, op) == [Idle EXCEPT !.page = p, !.op = op, !.step = "load",
                               !.filter = page[p].filter, !.timer = page[p].timer]
Reading(p, f) == [Clicked(p, "reload") EXCEPT !.step = "list", !.filter = f]

Start(p, c, new) ==
    /\ page[p].open
    /\ call[c].step = "free"
    /\ call' = [call EXCEPT ![c] = new]

\* Mutant: the form can be submitted while it is being submitted.
SubmitTwice(p, c, k, n) ==
    /\ ~page[p].done
    /\ Start(p, c, [Clicked(p, "submit") EXCEPT !.key = k, !.info = n])
    /\ UNCHANGED <<stored, page>>

\* onSubmit: one at a time, and not right after one that succeeded.
Submit(p, c, k, n) ==
    /\ ~Submitting(p)
    /\ ~page[p].done
    /\ Start(p, c, [Clicked(p, "submit") EXCEPT !.key = k, !.info = n])
    /\ UNCHANGED <<stored, page>>

HandleUndo(p, c) ==
    /\ page[p].offer # NoOne
    /\ Start(p, c, [Clicked(p, "undo") EXCEPT !.key = page[p].offer.key,
                                              !.info = page[p].offer.info])
    /\ UNCHANGED <<stored, page>>

HandleDelete(p, c, e) ==
    /\ Start(p, c, [Clicked(p, "remove") EXCEPT !.id = e.id, !.shown = e])
    /\ UNCHANGED <<stored, page>>

OnUse(p, c, e) ==
    /\ Start(p, c, [Clicked(p, "markUsed") EXCEPT !.id = e.id])
    /\ UNCHANGED <<stored, page>>

\* The hook also offers update; no page calls it yet.
Update(p, c, e, k, n) ==
    /\ Start(p, c, [Clicked(p, "update") EXCEPT !.id = e.id, !.key = k, !.info = n])
    /\ UNCHANGED <<stored, page>>

\* Mutant: a new filter does not list again.
SetFilterOnly(p, c, f) ==
    /\ page[p].open
    /\ page' = [page EXCEPT ![p].filter = f]
    /\ UNCHANGED <<stored, call>>

\* The reload button, and the effect that runs when the filter has changed.
Reload(p, c) ==
    /\ Start(p, c, Reading(p, page[p].filter))
    /\ UNCHANGED <<stored, page>>

SetFilter(p, c, f) ==
    /\ f # page[p].filter
    /\ Start(p, c, Reading(p, f))
    /\ page' = [page EXCEPT ![p].filter = f]
    /\ UNCHANGED stored

(***************************************************************************)
(* The steps of a call.                                                    *)
(***************************************************************************)
Load(c) ==
    /\ call[c].step = "load"
    /\ LET step == NextStep(stored, call[c])
       IN  call' = [call EXCEPT ![c] =
                  IF step = "done" THEN Over
                  ELSE [@ EXCEPT !.step = step,
                                 !.list = IF step = "save" THEN stored ELSE <<>>]]
    /\ UNCHANGED <<stored, page>>

Save(c) ==
    /\ call[c].step = "save"
    /\ stored' = Result(c)
    /\ call' = [call EXCEPT ![c].step = "list", ![c].list = <<>>]
    /\ page' = [p \in Page |->
                  [page[p] EXCEPT !.unseen = @ \/ (p # call[c].page /\ page[p].open)]]

\* The storage throws (or the tab is closed): the handler shows a message.
Fails(c) ==
    /\ call[c].step \in {"load", "save"}
    /\ call' = [call EXCEPT ![c] = Over]
    /\ UNCHANGED <<stored, page>>

\* Mutant: no effect clears the timer that is replaced.
OfferedNoEffect(pg, c) ==
    [pg EXCEPT !.offer = call[c].shown,
               !.armed = (pg.armed \ {call[c].timer}) \cup {c},
               !.timer = c]

\* The deletion is through: offer to undo it for ten seconds.  The handler
\* clears the timer it saw when it was clicked, the effect on undoTimer the
\* one before this.
Offered(pg, c) ==
    [pg EXCEPT !.offer = call[c].shown,
               !.armed = (pg.armed \ {call[c].timer, pg.timer}) \cup {c},
               !.timer = c]

\* What the handler does when the operation and its reload are through.
Finished(pg, c) ==
    CASE call[c].op = "remove" -> Offered(pg, c)
      [] call[c].op = "undo" -> [pg EXCEPT !.offer = NoOne]
      [] call[c].op = "submit" -> [pg EXCEPT !.done = TRUE]
      [] OTHER -> pg

\* reload: a tab's readings are answered in the order they were asked, so
\* reading and showing are one step.  onSubmit reloads once more.
Shown(c, pg, ok) ==
    IF ok THEN [pg EXCEPT !.items = Listed(stored, call[c].filter), !.unseen = FALSE,
                          !.late = (call[c].filter # pg.filter)]
          ELSE [pg EXCEPT !.unseen = TRUE]

ListAgain(c) ==
    /\ call[c].step \in {"list", "again"}
    /\ \E ok \in BOOLEAN :
         LET p == call[c].page
             pg == Shown(c, page[p], ok)
             again == call[c].op = "submit" /\ call[c].step = "list"
         IN  /\ page' = [page EXCEPT ![p] =
                  CASE ~page[p].open -> page[p]
                    [] page[p].open /\ call[c].step = "again" -> pg
                    [] OTHER -> Finished(pg, c)]
             /\ call' = [call EXCEPT ![c] =
                  IF again THEN [@ EXCEPT !.step = "again"] ELSE Over]
    /\ UNCHANGED stored

Expire(p, t) ==
    /\ t \in page[p].armed
    /\ page' = [page EXCEPT ![p].armed = @ \ {t}, ![p].offer = NoOne]
    /\ UNCHANGED <<stored, call>>

\* The badge of a saved entry goes after a while.
DoneClears(p) ==
    /\ page[p].done
    /\ page' = [page EXCEPT ![p].done = FALSE]
    /\ UNCHANGED <<stored, call>>

\* The owner leaves the page; what it has under way goes on without it.
Leave(p) ==
    /\ page[p].open
    /\ page' = [page EXCEPT ![p] = [PageOn(<<>>) EXCEPT !.open = FALSE,
                                      !.armed = page[p].armed \ {page[p].timer}]]
    /\ UNCHANGED <<stored, call>>

Click(p, c) ==
    \/ \E k \in Key, n \in Info : Submit(p, c, k, n)
    \/ HandleUndo(p, c)
    \/ \E e \in page[p].items :
         \/ HandleDelete(p, c, e)
         \/ OnUse(p, c, e)
         \/ \E k \in Key, n \in Info : Update(p, c, e, k, NoOne) \/ Update(p, c, e, NoOne, n)
    \/ Reload(p, c)
    \/ \E f \in Filter : SetFilter(p, c, f)

Next ==
    \/ \E p \in Page, c \in Call : Click(p, c) \/ Expire(p, c)
    \/ \E c \in Call : Load(c) \/ Save(c) \/ Fails(c) \/ ListAgain(c)
    \/ \E p \in Page : DoneClears(p) \/ Leave(p)

Spec == Init /\ [][Next]_vars

(***************************************************************************)
(* Properties.                                                             *)
(***************************************************************************)
\* The book and every list a call has loaded hold entries, each id once; at
\* most one form of a page is being submitted.
BookTypeOK ==
    /\ \A b \in {stored} \cup {call[c].list : c \in Call} :
         /\ b \in Seq(Entry)
         /\ \A i, j \in DOMAIN b : b[i].id = b[j].id => i = j
    /\ \A p \in Page :
         /\ page[p].items \subseteq Entry
         /\ page[p].offer \in Entry \cup {NoOne}
         /\ page[p].armed \subseteq Call
         /\ \A c, d \in Running(p) : call[c].op = "submit" /\ call[d].op = "submit" => c = d

\* However the operations of several tabs overlap, no address is in the book
\* twice: create updates or restores the entry there is, update refuses an
\* address another entry has (local-address-book.ts:40-69, 94-99).
OneActivePerKey == \A k \in Key : \A i, j \in ActiveWith(stored, k) : i = j

\* Deleting keeps an entry for its restoration with all its uses: an entry
\* is lost, or loses uses, only to a save whose list was loaded before
\* (local-address-book.ts:55-69, 106-114).  Storing the list as a whole has
\* that gap, between two tabs or two clicks of one.
NothingForgotten ==
    [][\A e \in Entries(stored) :
         \/ \E d \in Entries(stored') : d.id = e.id /\ d.uses >= e.uses
         \/ \E c \in Call : /\ call[c].step = "save"
                           /\ call'[c].step # "save"
                           /\ ~ \E d \in Entries(call[c].list) :
                                  d.id = e.id /\ d.uses >= e.uses]_vars

\* Once a page's calls are through it shows the book as stored, under the
\* filter the owner sees, whatever its reloads overtook (useAddressBook.ts:
\* 12-26): unless another tab has written since, or a click made under an
\* older filter has reloaded that filter's list, or the reload failed, which
\* the page says.
ShowsTheBook ==
    \A p \in Page :
        (/\ page[p].open /\ Running(p) = {}
         /\ ~page[p].unseen /\ ~page[p].late)
            => page[p].items = Listed(stored, page[p].filter)

\* The offer to undo a deletion stands under its own timer alone: the timer
\* of an earlier deletion, which the handler may not have seen when it was
\* clicked, no longer runs (AddressBookPage.tsx:73, 97-102).
OfferKeepsItsTime ==
    \A p \in Page : page[p].offer # NoOne => page[p].armed = {page[p].timer}
=============================================================================
