-------------------------- MODULE AddressBookProofs --------------------------
(***************************************************************************)
(* Proofs about AddressBook, for any tabs, clicks, addresses, names and    *)
(* filters, and any lists that are stored when the pages open.             *)
(***************************************************************************)
EXTENDS AddressBook, NaturalsInduction, WellFoundedInduction, SequenceTheorems, TLAPS

\* A list whose ids and whose active addresses differ.
Book(b) ==
    /\ b \in Seq(Entry)
    /\ \A i, j \in DOMAIN b : b[i].id = b[j].id => i = j
    /\ \A i, j \in DOMAIN b :
         ~b[i].deleted /\ ~b[j].deleted /\ b[i].key = b[j].key => i = j

\* Every entry of b is in d, at its place, with its uses or more.
Keeps(b, d) ==
    \A i \in DOMAIN b : i \in DOMAIN d /\ d[i].id = b[i].id /\ d[i].uses >= b[i].uses

\* Only a call that has been saved has given its name to an entry.
Named(b) ==
    \A c \in Call : call[c].step \in {"free", "load", "save"}
        => \A i \in DOMAIN b : b[i].id # c

Filters == Filter \cup {Key \X Info, {}}
Operation == {"submit", "undo", "update", "remove", "markUsed"}
CallRecord ==
    [step : {"free", "load", "save", "list", "again", "done"},
          page : Page \cup {NoOne}, op : Operation \cup {"reload", NoOne},
          id : Call \cup OldId \cup {NoOne}, key : Key \cup {NoOne},
          info : Info \cup {NoOne}, filter : Filters, shown : Entry \cup {NoOne},
          timer : Call \cup {NoOne}, list : Seq(Entry)]

\* A call under way is of a page, and has what its operation works with.
CallFine(a) ==
    /\ a \in CallRecord
    /\ a.step \in {"free", "done"} => a.page = NoOne
    /\ a.step \notin {"free", "done"} => a.page \in Page
    /\ a.step \in {"load", "save"} => a.op \in Operation
    /\ a.op \in {"submit", "undo"} => a.key \in Key /\ a.info \in Info
    /\ a.op = "remove" => a.shown \in Entry
    /\ a.step = "save" => Book(a.list) /\ NextStep(a.list, a) = "save"
    /\ a.step # "save" => a.list = <<>>

Tab == [items : SUBSET Entry, filter : Filters, open : BOOLEAN, done : BOOLEAN,
        offer : Entry \cup {NoOne}, timer : Call \cup {NoOne}, armed : SUBSET Call,
        unseen : BOOLEAN, late : BOOLEAN]

\* An offer has its own timer, and no other runs.
TabFine(pg) ==
    /\ pg \in Tab
    /\ pg.armed \subseteq {pg.timer}
    /\ pg.offer # NoOne => pg.armed = {pg.timer}

OneSubmit ==
    \A c, d \in Call : call[c].page # NoOne /\ call[c].page = call[d].page
                       /\ call[c].op = "submit" /\ call[d].op = "submit" => c = d

\* A page whose readings are through shows the book, whatever is still to load
\* or to save.
UpToDate(p) ==
    \/ ~page[p].open \/ page[p].unseen \/ page[p].late
    \/ \E c \in Call : call[c].page = p /\ call[c].step \in {"list", "again"}
    \/ page[p].items = Listed(stored, page[p].filter)

BookIInv ==
    /\ Book(stored) /\ Named(stored)
    /\ DOMAIN call = Call /\ \A c \in Call : CallFine(call[c]) /\ Named(call[c].list)
    /\ DOMAIN page = Page /\ \A p \in Page : TabFine(page[p])
    /\ OneSubmit
    /\ \A p \in Page : UpToDate(p)

-----------------------------------------------------------------------------
LEMMA FirstOfIn ==
    ASSUME NEW S, S \subseteq Nat, S # {}
    PROVE  FirstOf(S) \in S
<1> DEFINE R == {ss \in Nat \X Nat : ss[1] < ss[2]}
<1>1. IsWellFoundedOn(R, Nat) BY NatLessThanWellFounded DEF OpToRel
<1> HIDE DEF R
<1>2. PICK x \in S : \A y \in S : <<y, x>> \notin R BY <1>1, WFMin
<1>3. \A y \in S : ~ (y < x) BY <1>2 DEF R
<1>4. \A j \in S : x <= j BY <1>3
<1> QED BY <1>4 DEF FirstOf

LEMMA BookFields ==
    ASSUME NEW b, Book(b)
    PROVE  /\ b \in [1 .. Len(b) -> Entry] /\ DOMAIN b = 1 .. Len(b) /\ Len(b) \in Nat
           /\ DOMAIN b \subseteq Nat
           /\ \A i \in DOMAIN b : /\ b[i] \in Entry /\ b[i].id \in Call \cup OldId
                                  /\ b[i].key \in Key /\ b[i].info \in Info
                                  /\ b[i].deleted \in BOOLEAN /\ b[i].uses \in Nat
<1>1. b \in Seq(Entry) BY DEF Book
<1>2. b \in [1 .. Len(b) -> Entry] /\ DOMAIN b = 1 .. Len(b) /\ Len(b) \in Nat BY <1>1
<1>3. \A i \in DOMAIN b : b[i] \in Entry BY <1>2
<1> QED BY <1>2, <1>3 DEF Entry

\* One entry is changed: the list stays one if it keeps its id and has, if it
\* is active, an address that no other active entry has.
LEMMA ChangedBook ==
    ASSUME NEW b, Book(b), NEW d, d \in [DOMAIN b -> Entry], NEW i \in DOMAIN b,
           \A j \in DOMAIN b : j # i => d[j] = b[j],
           d[i].id = b[i].id, d[i].uses >= b[i].uses,
           ~d[i].deleted => \A j \in DOMAIN b : ~b[j].deleted /\ b[j].key = d[i].key => j = i
    PROVE  /\ Book(d) /\ Keeps(b, d)
           /\ \A k \in DOMAIN d : \E j \in DOMAIN b : b[j].id = d[k].id
<1>1. /\ DOMAIN b = 1 .. Len(b) /\ Len(b) \in Nat
      /\ \A j \in DOMAIN b : b[j].uses \in Nat
  BY BookFields
<1>2. d \in Seq(Entry) /\ DOMAIN d = DOMAIN b BY <1>1
<1>3. \A j \in DOMAIN b : d[j].id = b[j].id OBVIOUS
<1>4. \A j, k \in DOMAIN d : d[j].id = d[k].id => j = k BY <1>2, <1>3 DEF Book
<1>5. \A j, k \in DOMAIN d :
        ~d[j].deleted /\ ~d[k].deleted /\ d[j].key = d[k].key => j = k
  BY <1>2 DEF Book
<1>6. Keeps(b, d) BY <1>1, <1>2, <1>3 DEF Keeps
<1> QED BY <1>2, <1>3, <1>4, <1>5, <1>6 DEF Book

LEMMA AppendedBook ==
    ASSUME NEW b, Book(b), NEW e \in Entry,
           \A j \in DOMAIN b : b[j].id # e.id /\ b[j].key # e.key
    PROVE  Book(Append(b, e)) /\ Keeps(b, Append(b, e))
<1> DEFINE d == Append(b, e)
<1>1. /\ b \in Seq(Entry) /\ DOMAIN b = 1 .. Len(b) /\ Len(b) \in Nat
      /\ \A j \in DOMAIN b : b[j].uses \in Nat
  BY BookFields DEF Book
<1>2. /\ d \in Seq(Entry) /\ DOMAIN d = 1 .. Len(b) + 1
      /\ \A j \in DOMAIN b : d[j] = b[j]
      /\ d[Len(b) + 1] = e
  BY <1>1, AppendProperties
<1> HIDE DEF d
<1>3. \A j \in DOMAIN d : (j \in DOMAIN b /\ d[j] = b[j]) \/ (j = Len(b) + 1 /\ d[j] = e)
  BY <1>1, <1>2
<1>4. \A j, k \in DOMAIN d : d[j].id = d[k].id => j = k BY <1>3 DEF Book
<1>5. \A j, k \in DOMAIN d :
        ~d[j].deleted /\ ~d[k].deleted /\ d[j].key = d[k].key => j = k
  BY <1>3 DEF Book
<1>6. Keeps(b, d) BY <1>1, <1>2 DEF Keeps
<1> QED BY <1>2, <1>4, <1>5, <1>6 DEF d, Book

LEMMA CreatedBook ==
    ASSUME NEW c \in Call, CallFine(call[c]), call[c].step = "save",
           call[c].op \in {"submit", "undo"},
           \A i \in DOMAIN call[c].list : call[c].list[i].id # c
    PROVE  LET d == Created(call[c].list, c) IN
           /\ Book(d) /\ Keeps(call[c].list, d)
           /\ \A i \in DOMAIN d : d[i].id = c \/
                \E j \in DOMAIN call[c].list : call[c].list[j].id = d[i].id
<1> DEFINE a == call[c]
           b == a.list
           hit == IF ActiveWith(b, a.key) # {} THEN ActiveWith(b, a.key)
                                               ELSE DeletedWith(b, a.key)
           new == [id |-> c, key |-> a.key, info |-> a.info, deleted |-> FALSE, uses |-> 0]
           d == Created(b, c)
<1>1. Book(b) /\ a.key \in Key /\ a.info \in Info BY DEF CallFine
<1> HIDE DEF a, b
<1>2. /\ DOMAIN b \subseteq Nat /\ DOMAIN b = 1 .. Len(b) /\ b \in [1 .. Len(b) -> Entry]
      /\ Len(b) \in Nat
      /\ \A i \in DOMAIN b : /\ b[i] \in Entry /\ b[i].id \in Call \cup OldId
                             /\ b[i].key \in Key /\ b[i].info \in Info
                             /\ b[i].deleted \in BOOLEAN /\ b[i].uses \in Nat
  BY <1>1, BookFields
<1>3. \A i \in DOMAIN b : b[i].id # c BY DEF a, b
<1>4. d = IF hit # {}
          THEN [b EXCEPT ![FirstOf(hit)].info = a.info, ![FirstOf(hit)].deleted = FALSE]
          ELSE Append(b, new)
  BY DEF Created, a, b
<1> HIDE DEF d
<1>5. CASE hit # {}
  <2> DEFINE i == FirstOf(hit)
  <2>1. i \in hit BY <1>2, <1>5, FirstOfIn DEF ActiveWith, DeletedWith
  <2>2. i \in DOMAIN b /\ b[i].key = a.key
    BY <2>1 DEF ActiveWith, DeletedWith
  <2>3. \A j \in DOMAIN b : ~b[j].deleted /\ b[j].key = a.key => j = i
    BY <2>1, <1>1 DEF ActiveWith, DeletedWith, Book
  <2>4. d = [b EXCEPT ![i].info = a.info, ![i].deleted = FALSE] BY <1>4, <1>5
  <2> HIDE DEF i, hit
  <2>5. /\ d \in [DOMAIN b -> Entry] /\ \A j \in DOMAIN b : j # i => d[j] = b[j]
        /\ d[i].id = b[i].id /\ d[i].uses = b[i].uses /\ d[i].key = b[i].key
    BY <1>1, <1>2, <2>2, <2>4 DEF Entry
  <2>6. /\ d[i].uses >= b[i].uses
        /\ \A j \in DOMAIN b : ~b[j].deleted /\ b[j].key = d[i].key => j = i
    BY <1>2, <2>2, <2>3, <2>5
  <2>7. /\ Book(d) /\ Keeps(b, d) /\ \A k \in DOMAIN d : \E j \in DOMAIN b : b[j].id = d[k].id
    BY <1>1, <2>2, <2>5, <2>6, ChangedBook
  <2> QED BY <2>7 DEF a, b, d
<1>6. CASE hit = {}
  <2>1. d = Append(b, new) BY <1>4, <1>6
  <2>2. new \in Entry /\ new.id = c /\ new.key = a.key BY <1>1 DEF Entry
  <2>3. \A j \in DOMAIN b : b[j].key # a.key
    BY <1>2, <1>6 DEF ActiveWith, DeletedWith
  <2> HIDE DEF new
  <2>4. Book(d) /\ Keeps(b, d) BY <1>1, <1>3, <2>1, <2>2, <2>3, AppendedBook
  <2>5. \A i \in DOMAIN d : d[i].id = c \/ \E j \in DOMAIN b : b[j].id = d[i].id
    BY <1>1, <1>2, <2>1, <2>2, AppendProperties DEF Book
  <2> QED BY <2>4, <2>5 DEF a, b, d
<1> QED BY <1>5, <1>6

\* What a call writes is a list again, with every entry of the list it loaded.
LEMMA ResultBook ==
    ASSUME NEW c \in Call, CallFine(call[c]), call[c].step = "save",
           \A i \in DOMAIN call[c].list : call[c].list[i].id # c
    PROVE  LET d == Result(c) IN
           /\ Book(d) /\ Keeps(call[c].list, d)
           /\ \A i \in DOMAIN d : d[i].id = c \/
                \E j \in DOMAIN call[c].list : call[c].list[j].id = d[i].id
<1>1. CASE call[c].op \in {"submit", "undo"}
  <2>1. Result(c) = Created(call[c].list, c) BY <1>1 DEF Result
  <2> QED BY <1>1, <2>1, CreatedBook
<1>2. CASE call[c].op \in {"update", "remove", "markUsed"}
  <2> DEFINE a == call[c]
             b == a.list
             i == FirstOf(ActiveId(b, a.id))
             d == Result(c)
  <2>1. /\ Book(b) /\ NextStep(b, a) = "save"
        /\ a.key \in Key \cup {NoOne} /\ a.info \in Info \cup {NoOne}
    BY DEF CallFine, CallRecord
  <2>2. /\ d = CASE a.op \in {"submit", "undo"} -> Created(b, c)
                 [] a.op = "update" -> Updated(b, a)
                 [] a.op = "remove" -> Removed(b, a)
                 [] a.op = "markUsed" -> Marked(b, a)
    BY DEF Result
  <2> HIDE DEF a, b, d
  <2>3. /\ DOMAIN b \subseteq Nat /\ DOMAIN b = 1 .. Len(b) /\ b \in [1 .. Len(b) -> Entry]
        /\ Len(b) \in Nat
        /\ \A j \in DOMAIN b : /\ b[j] \in Entry /\ b[j].id \in Call \cup OldId
                               /\ b[j].key \in Key /\ b[j].info \in Info
                               /\ b[j].deleted \in BOOLEAN /\ b[j].uses \in Nat
    BY <2>1, BookFields
  <2>4. a.op \in {"update", "remove", "markUsed"} BY <1>2 DEF a
  <2>5. ActiveId(b, a.id) # {} /\ (a.op = "update" => ~Duplicate(b, a))
    BY <2>1, <2>4 DEF NextStep
  <2>6. i \in ActiveId(b, a.id) BY <2>3, <2>5, FirstOfIn DEF ActiveId
  <2>7. i \in DOMAIN b /\ ~b[i].deleted /\ b[i].id = a.id BY <2>6 DEF ActiveId
  <2>8. \A j \in DOMAIN b : ~b[j].deleted /\ b[j].key = b[i].key => j = i
    BY <2>1, <2>7 DEF Book
  <2> HIDE DEF i
  <2> SUFFICES /\ d \in [DOMAIN b -> Entry] /\ \A j \in DOMAIN b : j # i => d[j] = b[j]
               /\ d[i].id = b[i].id /\ d[i].uses >= b[i].uses
               /\ ~d[i].deleted =>
                    \A j \in DOMAIN b : ~b[j].deleted /\ b[j].key = d[i].key => j = i
    <3>1. /\ Book(d) /\ Keeps(b, d)
          /\ \A k \in DOMAIN d : \E j \in DOMAIN b : b[j].id = d[k].id
      BY <2>1, <2>7, ChangedBook
    <3> QED BY <3>1 DEF a, b, d
  <2>9. CASE a.op = "update"
    <3> DEFINE k == IF a.key = NoOne THEN b[i].key ELSE a.key
               n == IF a.info = NoOne THEN b[i].info ELSE a.info
    <3>1. d = [b EXCEPT ![i].info = n, ![i].key = k]
      BY <2>2, <2>3, <2>7, <2>9 DEF Updated, i, Entry
    <3>2. k \in Key /\ n \in Info BY <2>1, <2>3, <2>7
    <3>3. \A j \in DOMAIN b : ~b[j].deleted /\ b[j].key = k => j = i
      <4>1. CASE a.key = NoOne BY <2>8, <4>1
      <4>2. CASE a.key # NoOne
        <5>1. \A j \in ActiveWith(b, a.key) : b[j].id = a.id
          BY <2>5, <2>9, <4>2 DEF Duplicate
        <5> QED BY <5>1, <4>2, <2>1, <2>7 DEF ActiveWith, Book
      <4> QED BY <4>1, <4>2
    <3> HIDE DEF k, n
    <3>4. /\ d \in [DOMAIN b -> Entry] /\ \A j \in DOMAIN b : j # i => d[j] = b[j]
          /\ d[i].id = b[i].id /\ d[i].uses = b[i].uses /\ d[i].key = k
      BY <2>3, <2>7, <3>1, <3>2 DEF Entry
    <3> QED BY <2>3, <2>7, <3>3, <3>4
  <2>10. CASE a.op = "remove"
    <3>1. d = [b EXCEPT ![i].deleted = TRUE] BY <2>2, <2>10 DEF Removed, i
    <3>2. /\ d \in [DOMAIN b -> Entry] /\ \A j \in DOMAIN b : j # i => d[j] = b[j]
          /\ d[i].id = b[i].id /\ d[i].uses = b[i].uses /\ d[i].deleted
      BY <2>3, <2>7, <3>1 DEF Entry
    <3> QED BY <2>3, <2>7, <3>2
  <2>11. CASE a.op = "markUsed"
    <3>1. d = [b EXCEPT ![i].uses = b[i].uses + 1]
      BY <2>2, <2>3, <2>7, <2>11 DEF Marked, i, Entry
    <3> QED BY <2>3, <2>7, <2>8, <3>1 DEF Entry
  <2> QED BY <2>4, <2>9, <2>10, <2>11
<1>3. call[c].op \in {"submit", "undo", "update", "remove", "markUsed"}
  BY DEF CallFine, Operation
<1> QED BY <1>1, <1>2, <1>3

-----------------------------------------------------------------------------
LEMMA ListedEntries ==
    ASSUME NEW b, Book(b), NEW f
    PROVE  Listed(b, f) \subseteq Entry
BY BookFields DEF Listed, Entries

LEMMA BookInit ==
    ASSUME Init
    PROVE  BookIInv
<1>1. Book(stored) BY BookAssumption DEF Init, Book
<1>2. Named(stored)
  <2> SUFFICES ASSUME NEW c \in Call, NEW i \in DOMAIN stored PROVE stored[i].id # c
    BY DEF Named
  <2>1. stored[i].id \in OldId BY DEF Init, OldId
  <2> QED BY <2>1, BookAssumption
<1>3. ASSUME NEW c \in Call PROVE CallFine(call[c]) /\ Named(call[c].list)
  <2>1. call[c] = Idle /\ <<>> \in Seq(Entry) BY DEF Init
  <2>2. Idle \in CallRecord BY <2>1 DEF Idle, CallRecord, Filters
  <2>3. CallFine(Idle) BY <2>2, BookAssumption DEF CallFine, Idle
  <2>4. Named(Idle.list) BY DEF Named, Idle
  <2> QED BY <2>1, <2>3, <2>4
<1>4. ASSUME NEW p \in Page
      PROVE  TabFine(page[p]) /\ page[p].items = Listed(stored, page[p].filter)
  <2>1. page[p] = PageOn(stored) BY DEF Init
  <2>2. Listed(stored, Key \X Info) \subseteq Entry BY <1>1, ListedEntries
  <2>3. PageOn(stored) \in Tab BY <2>2 DEF PageOn, Tab, Filters
  <2> QED BY <2>1, <2>3 DEF PageOn, TabFine
<1>5. OneSubmit BY DEF Init, OneSubmit, Idle
<1>6. DOMAIN call = Call /\ DOMAIN page = Page BY DEF Init
<1> QED BY <1>1, <1>2, <1>3, <1>4, <1>5, <1>6 DEF BookIInv, UpToDate

\* A step of one call that leaves the book and the other calls alone.
CallStep(c, new) ==
    /\ stored' = stored
    /\ call' = [call EXCEPT ![c] = new]
    /\ CallFine(new) /\ Named(new.list)
    /\ call[c].step \notin {"free", "load", "save"} => new.step \notin {"free", "load", "save"}
    /\ \/ new.page = NoOne \/ new.op # "submit"
       \/ new.page = call[c].page /\ new.op = call[c].op
       \/ \A d \in Call : call[d].page = new.page => call[d].op # "submit"

LEMMA CallStepFine ==
    ASSUME BookIInv, NEW c \in Call, NEW new, CallStep(c, new)
    PROVE  /\ Book(stored') /\ Named(stored)'
           /\ DOMAIN call' = Call /\ \A d \in Call : CallFine(call'[d]) /\ Named(call[d].list)'
           /\ OneSubmit'
           /\ \A d \in Call : call'[d] = IF d = c THEN new ELSE call[d]
<1>1. DOMAIN call' = Call /\ \A d \in Call : call'[d] = IF d = c THEN new ELSE call[d]
  BY DEF CallStep, BookIInv
<1>2. ASSUME NEW b, Named(b) PROVE \A d \in Call : call'[d].step \in {"free", "load", "save"}
                                      => \A i \in DOMAIN b : b[i].id # d
  BY <1>1, <1>2 DEF Named, CallStep
<1>3. Book(stored') /\ Named(stored)' BY <1>2 DEF CallStep, BookIInv, Named
<1>4. \A d \in Call : CallFine(call'[d]) BY <1>1 DEF CallStep, BookIInv
<1>5. ASSUME NEW d \in Call PROVE Named(call[d].list)'
  <2>1. Named(call'[d].list) BY <1>1 DEF CallStep, BookIInv
  <2> QED BY <2>1, <1>2 DEF Named
<1>6. OneSubmit'
  <2> SUFFICES ASSUME NEW d \in Call, NEW e \in Call,
                      call'[d].page # NoOne, call'[d].page = call'[e].page,
                      call'[d].op = "submit", call'[e].op = "submit"
               PROVE  d = e
    BY DEF OneSubmit
  <2> QED BY <1>1 DEF CallStep, BookIInv, OneSubmit
<1> QED BY <1>1, <1>3, <1>4, <1>5, <1>6

\* What a page shows, and what it knows of it.
SameView(q) ==
    /\ page'[q].items = page[q].items /\ page'[q].filter = page[q].filter
    /\ page'[q].open = page[q].open
    /\ page'[q].unseen = page[q].unseen /\ page'[q].late = page[q].late

LEMMA QuietCall ==
    ASSUME BookIInv, NEW c \in Call, NEW new, CallStep(c, new), page' = page,
           call[c].step \notin {"list", "again"}
    PROVE  BookIInv'
<1>1. /\ Book(stored') /\ Named(stored)' /\ OneSubmit'
      /\ DOMAIN call' = Call /\ \A d \in Call : CallFine(call'[d]) /\ Named(call[d].list)'
      /\ \A d \in Call : call'[d] = IF d = c THEN new ELSE call[d]
  BY CallStepFine
<1>2. ASSUME NEW q \in Page PROVE UpToDate(q)'
  <2>1. UpToDate(q) BY DEF BookIInv
  <2>2. stored' = stored BY DEF CallStep
  <2>3. CASE \E d \in Call : call[d].page = q /\ call[d].step \in {"list", "again"}
    <3>1. PICK d \in Call : call[d].page = q /\ call[d].step \in {"list", "again"} BY <2>3
    <3>2. call'[d] = call[d] BY <1>1, <3>1
    <3> QED BY <3>1, <3>2 DEF UpToDate
  <2>4. CASE ~ \E d \in Call : call[d].page = q /\ call[d].step \in {"list", "again"}
    BY <2>1, <2>2, <2>4 DEF UpToDate
  <2> QED BY <2>3, <2>4
<1> QED BY <1>1, <1>2 DEF BookIInv, Book

\* Clicks and steps that leave every page as it is.
LEMMA StartFine ==
    ASSUME BookIInv, NEW p \in Page, NEW c \in Call, NEW new, Start(p, c, new),
           stored' = stored, new \in CallRecord, new.page = p, new.step \in {"load", "list"},
           new.step = "load" => new.op \in Operation,
           new.op \in {"submit", "undo"} => new.key \in Key /\ new.info \in Info,
           new.op = "remove" => new.shown \in Entry, new.list = <<>>,
           new.op = "submit" => ~Submitting(p)
    PROVE  CallStep(c, new) /\ call[c].step = "free"
<1>1. CallFine(new) BY DEF CallFine
<1>2. Named(new.list) BY DEF Named
<1>3. new.op = "submit" => \A d \in Call : call[d].page = new.page => call[d].op # "submit"
  BY DEF Submitting, Running
<1> QED BY <1>1, <1>2, <1>3 DEF CallStep, Start

LEMMA ClickedFine ==
    ASSUME BookIInv, NEW p \in Page, NEW op \in Operation
    PROVE  /\ Clicked(p, op) \in CallRecord /\ Clicked(p, op).page = p /\ Clicked(p, op).op = op
           /\ Clicked(p, op).step = "load" /\ Clicked(p, op).list = <<>>
<1>1. page[p].filter \in Filters /\ page[p].timer \in Call \cup {NoOne}
  BY DEF BookIInv, TabFine, Tab
<1>2. <<>> \in Seq(Entry) OBVIOUS
<1> QED BY <1>1, <1>2 DEF Clicked, Idle, CallRecord, Operation

LEMMA ReadingFine ==
    ASSUME BookIInv, NEW p \in Page, NEW f \in Filters
    PROVE  /\ Reading(p, f) \in CallRecord /\ Reading(p, f).page = p
           /\ Reading(p, f).step = "list" /\ Reading(p, f).list = <<>>
           /\ Reading(p, f).op = "reload"
<1>1. page[p].filter \in Filters /\ page[p].timer \in Call \cup {NoOne}
  BY DEF BookIInv, TabFine, Tab
<1>2. <<>> \in Seq(Entry) OBVIOUS
<1> QED BY <1>1, <1>2 DEF Reading, Clicked, Idle, CallRecord

LEMMA ClickStep ==
    ASSUME BookIInv, NEW p \in Page, NEW c \in Call, Click(p, c)
    PROVE  BookIInv'
<1>1. ASSUME NEW new, Start(p, c, new), UNCHANGED <<stored, page>>,
             CallStep(c, new) /\ call[c].step = "free"
      PROVE  BookIInv'
  BY <1>1, QuietCall
<1>2. ASSUME NEW k \in Key, NEW n \in Info, Submit(p, c, k, n)
      PROVE  BookIInv'
  <2> DEFINE old == Clicked(p, "submit")
             new == [old EXCEPT !.key = k, !.info = n]
  <2>0. /\ old \in CallRecord /\ old.page = p /\ old.op = "submit" /\ old.step = "load"
        /\ old.list = <<>>
    BY ClickedFine DEF Operation
  <2> HIDE DEF old
  <2>1. /\ new \in CallRecord /\ new.page = p /\ new.step = "load" /\ new.op = "submit"
        /\ new.key \in Key /\ new.info \in Info /\ new.list = <<>>
    BY <2>0 DEF CallRecord
  <2>2. Start(p, c, new) /\ UNCHANGED <<stored, page>> /\ ~Submitting(p) BY <1>2 DEF Submit, old
  <2> HIDE DEF new
  <2> QED BY <1>1, <2>1, <2>2, StartFine DEF Operation
<1>3. CASE HandleUndo(p, c)
  <2> DEFINE old == Clicked(p, "undo")
             new == [old EXCEPT !.key = page[p].offer.key,
                                               !.info = page[p].offer.info]
  <2>1. page[p].offer.key \in Key /\ page[p].offer.info \in Info
    BY <1>3 DEF HandleUndo, BookIInv, TabFine, Tab, Entry
  <2>0. /\ old \in CallRecord /\ old.page = p /\ old.op = "undo" /\ old.step = "load"
        /\ old.list = <<>>
    BY ClickedFine DEF Operation
  <2> HIDE DEF old
  <2>2. /\ new \in CallRecord /\ new.page = p /\ new.step = "load" /\ new.op = "undo"
        /\ new.key \in Key /\ new.info \in Info /\ new.list = <<>>
    BY <2>1, <2>0 DEF CallRecord
  <2>3. Start(p, c, new) /\ UNCHANGED <<stored, page>> BY <1>3 DEF HandleUndo, old
  <2> HIDE DEF new
  <2> QED BY <1>1, <2>2, <2>3, StartFine DEF Operation
<1>4. ASSUME NEW e \in page[p].items
      PROVE  e \in Entry /\ e.id \in Call \cup OldId
  BY DEF BookIInv, TabFine, Tab, Entry
<1>5. ASSUME NEW e \in page[p].items, HandleDelete(p, c, e)
      PROVE  BookIInv'
  <2> DEFINE old == Clicked(p, "remove")
             new == [old EXCEPT !.id = e.id, !.shown = e]
  <2>0. /\ old \in CallRecord /\ old.page = p /\ old.op = "remove" /\ old.step = "load"
        /\ old.list = <<>>
    BY ClickedFine DEF Operation
  <2> HIDE DEF old
  <2>1. /\ new \in CallRecord /\ new.page = p /\ new.step = "load" /\ new.op = "remove"
        /\ new.shown \in Entry /\ new.list = <<>>
    BY <1>4, <2>0 DEF CallRecord
  <2>2. Start(p, c, new) /\ UNCHANGED <<stored, page>> BY <1>5 DEF HandleDelete, old
  <2> HIDE DEF new
  <2> QED BY <1>1, <2>1, <2>2, StartFine DEF Operation
<1>6. ASSUME NEW e \in page[p].items, OnUse(p, c, e)
      PROVE  BookIInv'
  <2> DEFINE old == Clicked(p, "markUsed")
             new == [old EXCEPT !.id = e.id]
  <2>0. /\ old \in CallRecord /\ old.page = p /\ old.op = "markUsed" /\ old.step = "load"
        /\ old.list = <<>>
    BY ClickedFine DEF Operation
  <2> HIDE DEF old
  <2>1. /\ new \in CallRecord /\ new.page = p /\ new.step = "load" /\ new.op = "markUsed"
        /\ new.list = <<>>
    BY <1>4, <2>0 DEF CallRecord
  <2>2. Start(p, c, new) /\ UNCHANGED <<stored, page>> BY <1>6 DEF OnUse, old
  <2> HIDE DEF new
  <2> QED BY <1>1, <2>1, <2>2, StartFine DEF Operation
<1>7. ASSUME NEW e \in page[p].items, NEW k \in Key \cup {NoOne}, NEW n \in Info \cup {NoOne},
             Update(p, c, e, k, n)
      PROVE  BookIInv'
  <2> DEFINE old == Clicked(p, "update")
             new == [old EXCEPT !.id = e.id, !.key = k, !.info = n]
  <2>0. /\ old \in CallRecord /\ old.page = p /\ old.op = "update" /\ old.step = "load"
        /\ old.list = <<>>
    BY ClickedFine DEF Operation
  <2> HIDE DEF old
  <2>1. /\ new \in CallRecord /\ new.page = p /\ new.step = "load" /\ new.op = "update"
        /\ new.list = <<>>
    BY <1>4, <2>0 DEF CallRecord
  <2>2. Start(p, c, new) /\ UNCHANGED <<stored, page>> BY <1>7 DEF Update, old
  <2> HIDE DEF new
  <2> QED BY <1>1, <2>1, <2>2, StartFine DEF Operation
<1>8. CASE Reload(p, c)
  <2> DEFINE new == Reading(p, page[p].filter)
  <2>1. page[p].filter \in Filters BY DEF BookIInv, TabFine, Tab
  <2>2. /\ new \in CallRecord /\ new.page = p /\ new.step = "list" /\ new.op = "reload"
        /\ new.list = <<>>
    BY <2>1, ReadingFine
  <2>3. Start(p, c, new) /\ UNCHANGED <<stored, page>> BY <1>8 DEF Reload
  <2> HIDE DEF new
  <2> QED BY <1>1, <2>2, <2>3, StartFine DEF Operation
<1>9. ASSUME NEW f \in Filter, SetFilter(p, c, f)
      PROVE  BookIInv'
  <2> DEFINE new == Reading(p, f)
  <2>1. /\ new \in CallRecord /\ new.page = p /\ new.step = "list" /\ new.op = "reload"
        /\ new.list = <<>>
    BY ReadingFine DEF Filters
  <2>2. /\ Start(p, c, new) /\ stored' = stored /\ page' = [page EXCEPT ![p].filter = f]
    BY <1>9 DEF SetFilter
  <2> HIDE DEF new
  <2>3. CallStep(c, new) /\ call[c].step = "free" BY <2>1, <2>2, StartFine
  <2>4. /\ Book(stored') /\ Named(stored)' /\ OneSubmit'
        /\ DOMAIN call' = Call /\ \A d \in Call : CallFine(call'[d]) /\ Named(call[d].list)'
        /\ \A d \in Call : call'[d] = IF d = c THEN new ELSE call[d]
    BY <2>3, CallStepFine
  <2>5. DOMAIN page' = Page /\ \A q \in Page : q # p => page'[q] = page[q]
    BY <2>2 DEF BookIInv
  <2>6. TabFine(page'[p])
    <3>1. /\ page'[p] = [page[p] EXCEPT !.filter = f] /\ TabFine(page[p])
      BY <2>2 DEF BookIInv
    <3> QED BY <3>1 DEF TabFine, Tab, Filters
  <2>7. ASSUME NEW q \in Page PROVE UpToDate(q)'
    <3>1. CASE q = p BY <2>1, <2>4, <3>1 DEF UpToDate
    <3>2. CASE q # p
      <4>1. page'[q] = page[q] /\ stored' = stored /\ UpToDate(q) BY <2>2, <2>5, <3>2 DEF BookIInv
      <4>2. \A d \in Call : call[d].page = q /\ call[d].step \in {"list", "again"}
                => call'[d] = call[d]
        BY <2>3, <2>4
      <4> QED BY <4>1, <4>2 DEF UpToDate
    <3> QED BY <3>1, <3>2
  <2>8. \A q \in Page : TabFine(page'[q]) BY <2>5, <2>6 DEF BookIInv
  <2> QED BY <2>4, <2>5, <2>7, <2>8 DEF BookIInv, Book
<1> QED BY <1>2, <1>3, <1>5, <1>6, <1>7, <1>8, <1>9 DEF Click

LEMMA OverFine ==
    CallFine(Over) /\ Named(Over.list) /\ Over.page = NoOne /\ Over.step = "done"
<1>1. <<>> \in Seq(Entry) OBVIOUS
<1>2. Over \in CallRecord BY <1>1 DEF Over, Idle, CallRecord, Filters
<1> QED BY <1>2, BookAssumption DEF Over, Idle, CallFine, Named

LEMMA LoadStep ==
    ASSUME BookIInv, NEW c \in Call, Load(c)
    PROVE  BookIInv'
<1> DEFINE step == NextStep(stored, call[c])
           list == IF step = "save" THEN stored ELSE <<>>
           kept == [call[c] EXCEPT !.step = step, !.list = list]
           new == IF step = "done" THEN Over ELSE kept
<1>1. /\ call[c].step = "load" /\ stored' = stored /\ page' = page
      /\ call' = [call EXCEPT ![c] = new]
      /\ CallFine(call[c]) /\ call[c] \in CallRecord /\ Book(stored) /\ Named(stored)
  BY DEF Load, BookIInv, CallFine
<1>2. step \in {"save", "list", "done"} BY DEF NextStep
<1>3. list \in Seq(Entry) /\ Named(list) BY <1>1, <1>2 DEF Book, Named
<1>4. /\ step = "save" => list = stored
      /\ step # "save" => list = <<>>
  OBVIOUS
<1>5. NextStep(stored, kept) = step BY <1>1 DEF CallRecord, NextStep, Duplicate
<1> HIDE DEF step, list
<1>6. /\ kept \in CallRecord /\ kept.step = step /\ kept.list = list
      /\ kept.page = call[c].page /\ kept.op = call[c].op /\ kept.key = call[c].key
      /\ kept.info = call[c].info /\ kept.shown = call[c].shown
  <2>1. PICK a \in CallRecord : a = call[c] BY <1>1
  <2>2. PICK l \in Seq(Entry) : l = list BY <1>3
  <2>3. PICK s \in {"save", "list", "done"} : s = step BY <1>2
  <2>4. kept = [a EXCEPT !.step = s, !.list = l] BY <2>1, <2>2, <2>3
  <2> HIDE DEF kept
  <2>5. kept \in CallRecord BY ONLY <2>4, a \in CallRecord, l \in Seq(Entry),
                                  s \in {"save", "list", "done"} DEF CallRecord
  <2>6. /\ kept.step = s /\ kept.list = l
        /\ kept.page = a.page /\ kept.op = a.op /\ kept.key = a.key
        /\ kept.info = a.info /\ kept.shown = a.shown
    BY ONLY <2>4, a \in CallRecord DEF CallRecord
  <2> QED BY <2>1, <2>2, <2>3, <2>5, <2>6
<1> HIDE DEF kept
<1>7. CASE step = "done"
  <2>1. new = Over BY <1>7
  <2> HIDE DEF new
  <2>2. CallStep(c, new) BY <1>1, <2>1, OverFine DEF CallStep
  <2> QED BY <1>1, <2>2, QuietCall
<1>8. CASE step # "done"
  <2>1. new = kept BY <1>8
  <2> HIDE DEF new
  <2>2. CallFine(kept) BY <1>1, <1>2, <1>3, <1>4, <1>5, <1>6, <1>8 DEF CallFine
  <2>3. CallStep(c, new) BY <1>1, <1>3, <1>6, <2>1, <2>2 DEF CallStep
  <2> QED BY <1>1, <2>3, QuietCall
<1> QED BY <1>7, <1>8

LEMMA FailsStep ==
    ASSUME BookIInv, NEW c \in Call, Fails(c)
    PROVE  BookIInv'
<1>1. /\ call[c].step \in {"load", "save"} /\ stored' = stored /\ page' = page
      /\ call' = [call EXCEPT ![c] = Over]
  BY DEF Fails
<1>2. CallStep(c, Over) BY <1>1, OverFine DEF CallStep
<1> QED BY <1>1, <1>2, QuietCall

\* What a save makes of the book, and which of its entries it keeps.
LEMMA SaveResult ==
    ASSUME BookIInv, NEW c \in Call, Save(c)
    PROVE  /\ Book(stored') /\ Keeps(call[c].list, stored') /\ Book(call[c].list)
           /\ \A i \in DOMAIN stored' : stored'[i].id = c \/
                \E j \in DOMAIN call[c].list : call[c].list[j].id = stored'[i].id
<1>1. /\ call[c].step = "save" /\ stored' = Result(c) /\ CallFine(call[c])
      /\ \A i \in DOMAIN call[c].list : call[c].list[i].id # c
  BY DEF Save, BookIInv, Named
<1> QED BY <1>1, ResultBook DEF CallFine

LEMMA SaveStep ==
    ASSUME BookIInv, NEW c \in Call, Save(c)
    PROVE  BookIInv'
<1> DEFINE new == [call[c] EXCEPT !.step = "list", !.list = <<>>]
<1>1. /\ call[c].step = "save" /\ CallFine(call[c]) /\ call[c] \in CallRecord
      /\ call[c].page \in Page
  BY DEF Save, BookIInv, CallFine
<1>2. DOMAIN call' = Call /\ \A d \in Call : call'[d] = IF d = c THEN new ELSE call[d]
  BY DEF Save, BookIInv
<1>3. <<>> \in Seq(Entry) OBVIOUS
<1>4. /\ new \in CallRecord /\ new.step = "list" /\ new.list = <<>> /\ new.page = call[c].page
      /\ new.op = call[c].op /\ new.key = call[c].key /\ new.info = call[c].info
      /\ new.shown = call[c].shown
  BY <1>1, <1>3 DEF CallRecord
<1> HIDE DEF new
<1>5. CallFine(new) BY <1>1, <1>4 DEF CallFine
<1>6. \A d \in Call : CallFine(call'[d]) BY <1>2, <1>5 DEF BookIInv
<1>7. Book(stored') BY SaveResult
<1>8. ASSUME NEW d \in Call, call'[d].step \in {"free", "load", "save"}
      PROVE  d # c /\ call'[d] = call[d]
  BY <1>2, <1>4, <1>8
<1>9. Named(stored)'
  <2> SUFFICES ASSUME NEW d \in Call, call'[d].step \in {"free", "load", "save"},
                      NEW i \in DOMAIN stored'
               PROVE  stored'[i].id # d
    BY DEF Named
  <2>1. d # c /\ call[d].step \in {"free", "load", "save"} BY <1>8
  <2>2. \A j \in DOMAIN call[c].list : call[c].list[j].id # d BY <2>1 DEF BookIInv, Named
  <2> QED BY <2>1, <2>2, SaveResult
<1>10. ASSUME NEW d \in Call PROVE Named(call[d].list)'
  <2>1. CASE d = c BY <1>2, <1>4, <2>1 DEF Named
  <2>2. CASE d # c
    <3>1. call'[d] = call[d] /\ Named(call[d].list) BY <1>2, <2>2 DEF BookIInv
    <3> QED BY <1>8, <3>1 DEF Named
  <2> QED BY <2>1, <2>2
<1>11. OneSubmit'
  <2> SUFFICES ASSUME NEW d \in Call, NEW e \in Call,
                      call'[d].page # NoOne, call'[d].page = call'[e].page,
                      call'[d].op = "submit", call'[e].op = "submit"
               PROVE  d = e
    BY DEF OneSubmit
  <2> QED BY <1>2, <1>4 DEF BookIInv, OneSubmit
<1>12. DOMAIN page' = Page /\ \A q \in Page :
          page'[q] = [page[q] EXCEPT !.unseen = page[q].unseen \/ (q # call[c].page /\ page[q].open)]
  BY DEF Save
<1>13. ASSUME NEW q \in Page
       PROVE  /\ TabFine(page'[q]) /\ page'[q].items = page[q].items
              /\ page'[q].filter = page[q].filter /\ page'[q].open = page[q].open
              /\ (q # call[c].page /\ page[q].open => page'[q].unseen)
  <2> DEFINE u == page[q].unseen \/ (q # call[c].page /\ page[q].open)
             old == page[q]
  <2>1. page'[q] = [old EXCEPT !.unseen = u] /\ TabFine(old) BY <1>12 DEF BookIInv
  <2>2. (q # call[c].page /\ old.open => u) /\ u \in BOOLEAN BY <2>1 DEF TabFine, Tab
  <2> HIDE DEF u, old
  <2>3. /\ TabFine(page'[q]) /\ page'[q].items = old.items
        /\ page'[q].filter = old.filter /\ page'[q].open = old.open
        /\ page'[q].unseen = u
    BY <2>1, <2>2 DEF TabFine, Tab
  <2> QED BY <2>2, <2>3 DEF old
<1>14. ASSUME NEW q \in Page PROVE UpToDate(q)'
  <2>1. CASE q = call[c].page BY <1>2, <1>4, <2>1 DEF UpToDate
  <2>2. CASE q # call[c].page BY <1>13, <2>2 DEF UpToDate
  <2> QED BY <2>1, <2>2
<1> QED BY <1>2, <1>6, <1>7, <1>9, <1>10, <1>11, <1>12, <1>13, <1>14 DEF BookIInv, Book

-----------------------------------------------------------------------------
\* A reading shows the book, or says that it failed, or was for another filter.
Current(pg) == pg.unseen \/ pg.late \/ pg.items = Listed(stored, pg.filter)

LEMMA ShownFine ==
    ASSUME Book(stored), NEW c \in Call, NEW old, TabFine(old), NEW ok \in BOOLEAN
    PROVE  LET pg == Shown(c, old, ok) IN
           /\ TabFine(pg) /\ Current(pg)
           /\ pg.filter = old.filter /\ pg.open = old.open
<1> DEFINE items == Listed(stored, call[c].filter)
           late == (call[c].filter # old.filter)
           pg == Shown(c, old, ok)
<1>1. items \subseteq Entry /\ late \in BOOLEAN BY ListedEntries
<1>2. ~late => items = Listed(stored, old.filter) OBVIOUS
<1>3. CASE ok
  <2>1. pg = [old EXCEPT !.items = items, !.unseen = FALSE, !.late = late] BY <1>3 DEF Shown
  <2> HIDE DEF items, late, pg
  <2>2. /\ TabFine(pg) /\ pg.filter = old.filter /\ pg.open = old.open
        /\ pg.items = items /\ pg.late = late
    BY <1>1, <2>1 DEF TabFine, Tab
  <2> QED BY <1>1, <1>2, <2>2 DEF pg, Current
<1>4. CASE ~ok
  <2>1. pg = [old EXCEPT !.unseen = TRUE] BY <1>4 DEF Shown
  <2> HIDE DEF items, late, pg
  <2>2. /\ TabFine(pg) /\ pg.filter = old.filter /\ pg.open = old.open /\ pg.unseen
    BY <2>1 DEF TabFine, Tab
  <2> QED BY <2>2 DEF pg, Current
<1> QED BY <1>3, <1>4

LEMMA FinishedFine ==
    ASSUME NEW c \in Call, CallFine(call[c]), NEW pg, TabFine(pg)
    PROVE  LET d == Finished(pg, c) IN
           /\ TabFine(d) /\ d.filter = pg.filter /\ d.open = pg.open
           /\ d.items = pg.items /\ d.unseen = pg.unseen /\ d.late = pg.late
<1> DEFINE d == Finished(pg, c)
<1>1. CASE call[c].op = "remove"
  <2> DEFINE shown == call[c].shown
             armed == (pg.armed \ {call[c].timer, pg.timer}) \cup {c}
  <2>1. d = [pg EXCEPT !.offer = shown, !.armed = armed, !.timer = c]
    BY <1>1 DEF Finished, Offered
  <2>2. shown \in Entry BY <1>1 DEF CallFine
  <2>3. armed = {c} BY DEF TabFine
  <2> HIDE DEF d, shown, armed
  <2>4. /\ d \in Tab /\ d.timer = c /\ d.armed = armed /\ d.filter = pg.filter
        /\ d.open = pg.open /\ d.items = pg.items /\ d.unseen = pg.unseen /\ d.late = pg.late
    BY <2>1, <2>2, <2>3 DEF TabFine, Tab
  <2> QED BY <2>3, <2>4 DEF TabFine, d
<1>2. CASE call[c].op = "undo"
  <2>1. d = [pg EXCEPT !.offer = NoOne] BY <1>2 DEF Finished
  <2> HIDE DEF d
  <2>2. /\ d \in Tab /\ d.timer = pg.timer /\ d.armed = pg.armed /\ d.offer = NoOne
        /\ d.filter = pg.filter /\ d.open = pg.open /\ d.items = pg.items
        /\ d.unseen = pg.unseen /\ d.late = pg.late
    BY <2>1 DEF TabFine, Tab
  <2> QED BY <2>2 DEF TabFine, d
<1>3. CASE call[c].op = "submit"
  <2>1. d = [pg EXCEPT !.done = TRUE] BY <1>3 DEF Finished
  <2> HIDE DEF d
  <2>2. /\ d \in Tab /\ d.timer = pg.timer /\ d.armed = pg.armed /\ d.offer = pg.offer
        /\ d.filter = pg.filter /\ d.open = pg.open /\ d.items = pg.items
        /\ d.unseen = pg.unseen /\ d.late = pg.late
    BY <2>1 DEF TabFine, Tab
  <2> QED BY <2>2 DEF TabFine, d
<1>4. CASE call[c].op \notin {"remove", "undo", "submit"}
  <2>1. d = pg BY <1>4 DEF Finished
  <2> QED BY <2>1
<1> QED BY <1>1, <1>2, <1>3, <1>4

LEMMA ListAgainStep ==
    ASSUME BookIInv, NEW c \in Call, ListAgain(c)
    PROVE  BookIInv'
<1> DEFINE p == call[c].page
           again == call[c].op = "submit" /\ call[c].step = "list"
           more == [call[c] EXCEPT !.step = "again"]
           new == IF again THEN more ELSE Over
<1>1. /\ call[c].step \in {"list", "again"} /\ stored' = stored /\ Book(stored)
      /\ CallFine(call[c]) /\ call[c] \in CallRecord /\ p \in Page /\ call[c].list = <<>>
      /\ TabFine(page[p])
  BY DEF ListAgain, BookIInv, CallFine
<1>2. PICK ok \in BOOLEAN :
        /\ page' = [page EXCEPT ![p] =
             CASE ~page[p].open -> page[p]
               [] page[p].open /\ call[c].step = "again" -> Shown(c, page[p], ok)
               [] OTHER -> Finished(Shown(c, page[p], ok), c)]
        /\ call' = [call EXCEPT ![c] = IF again THEN more ELSE Over]
  BY DEF ListAgain
<1> DEFINE old == page[p]
           pg == Shown(c, old, ok)
           tab == CASE ~old.open -> old
                    [] old.open /\ call[c].step = "again" -> pg
                    [] OTHER -> Finished(pg, c)
<1>3. /\ TabFine(pg) /\ Current(pg) /\ pg.filter = old.filter /\ pg.open = old.open
  BY <1>1, ShownFine
<1>4. TabFine(tab) /\ (~tab.open \/ Current(tab))
  <2>1. CASE ~old.open
    <3>1. tab = old BY <2>1
    <3> HIDE DEF tab
    <3> QED BY <1>1, <2>1, <3>1
  <2>2. CASE old.open /\ call[c].step = "again"
    <3>1. tab = pg BY <2>2
    <3> HIDE DEF tab, pg
    <3> QED BY <1>3, <3>1
  <2>3. CASE old.open /\ call[c].step # "again"
    <3> DEFINE d == Finished(pg, c)
    <3>1. tab = d BY <2>3
    <3> HIDE DEF tab, pg
    <3>2. /\ TabFine(d) /\ d.filter = pg.filter /\ d.items = pg.items
          /\ d.unseen = pg.unseen /\ d.late = pg.late
      BY <1>1, <1>3, FinishedFine
    <3> QED BY <1>3, <3>1, <3>2 DEF Current
  <2> QED BY <2>1, <2>2, <2>3
<1>5. page' = [page EXCEPT ![p] = tab] BY <1>2
<1>6. call' = [call EXCEPT ![c] = new] BY <1>2
<1> HIDE DEF tab, pg, old
<1>7. CallStep(c, new)
  <2>1. CASE again
    <3>1. /\ more \in CallRecord /\ more.step = "again" /\ more.list = <<>>
          /\ more.page = p /\ more.op = call[c].op /\ more.key = call[c].key
          /\ more.info = call[c].info /\ more.shown = call[c].shown
      BY <1>1 DEF CallRecord
    <3>2. new = more /\ call[c].op = "submit" BY <2>1
    <3> HIDE DEF more, new
    <3>3. CallFine(more) /\ Named(more.list) BY <1>1, <3>1 DEF CallFine, Named
    <3> QED BY <1>1, <1>6, <3>1, <3>2, <3>3 DEF CallStep
  <2>2. CASE ~again
    <3>1. new = Over BY <2>2
    <3> HIDE DEF new
    <3> QED BY <1>1, <1>6, <3>1, OverFine DEF CallStep
  <2> QED BY <2>1, <2>2
<1> HIDE DEF new
<1>8. /\ Book(stored') /\ Named(stored)' /\ OneSubmit'
      /\ DOMAIN call' = Call /\ \A d \in Call : CallFine(call'[d]) /\ Named(call[d].list)'
      /\ \A d \in Call : call'[d] = IF d = c THEN new ELSE call[d]
  BY <1>7, CallStepFine
<1>9. DOMAIN page' = Page /\ \A q \in Page : page'[q] = IF q = p THEN tab ELSE page[q]
  BY <1>5 DEF BookIInv
<1>10. \A q \in Page : TabFine(page'[q]) BY <1>4, <1>9 DEF BookIInv
<1>11. ASSUME NEW q \in Page PROVE UpToDate(q)'
  <2>1. CASE q = p BY <1>1, <1>4, <1>9, <2>1 DEF UpToDate, Current, Listed
  <2>2. CASE q # p
    <3>1. page'[q] = page[q] /\ UpToDate(q) BY <1>9, <2>2 DEF BookIInv
    <3>2. \A d \in Call : call[d].page = q => call'[d] = call[d] BY <1>8, <2>2
    <3> QED BY <1>1, <3>1, <3>2 DEF UpToDate, Listed
  <2> QED BY <2>1, <2>2
<1> QED BY <1>8, <1>9, <1>10, <1>11 DEF BookIInv, Book

\* A step of one page that leaves the book and the calls alone.
LEMMA PageStep ==
    ASSUME BookIInv, NEW p \in Page, NEW tab, UNCHANGED <<stored, call>>,
           page' = [page EXCEPT ![p] = tab], TabFine(tab),
           \/ ~tab.open
           \/ /\ tab.items = page[p].items /\ tab.filter = page[p].filter
              /\ tab.open = page[p].open
              /\ tab.unseen = page[p].unseen /\ tab.late = page[p].late
    PROVE  BookIInv'
<1>1. DOMAIN page' = Page /\ \A q \in Page : page'[q] = IF q = p THEN tab ELSE page[q]
  BY DEF BookIInv
<1>2. \A q \in Page : TabFine(page'[q]) BY <1>1 DEF BookIInv
<1>3. ASSUME NEW q \in Page PROVE UpToDate(q)'
  BY <1>1 DEF BookIInv, UpToDate, Listed
<1>4. /\ Named(stored)' /\ OneSubmit' /\ Book(stored')
      /\ DOMAIN call' = Call /\ \A d \in Call : CallFine(call'[d]) /\ Named(call[d].list)'
  BY DEF BookIInv, Named, OneSubmit
<1> QED BY <1>1, <1>2, <1>3, <1>4 DEF BookIInv, Book

LEMMA ExpireStep ==
    ASSUME BookIInv, NEW p \in Page, NEW t \in Call, Expire(p, t)
    PROVE  BookIInv'
<1> DEFINE old == page[p]
           armed == old.armed \ {t}
           tab == [old EXCEPT !.armed = armed, !.offer = NoOne]
<1>1. page' = [page EXCEPT ![p] = tab] /\ UNCHANGED <<stored, call>> BY DEF Expire, BookIInv, TabFine, Tab
<1>2. TabFine(old) BY DEF BookIInv
<1>3. armed \subseteq old.armed OBVIOUS
<1> HIDE DEF armed, old
<1>4. /\ tab \in Tab /\ tab.armed = armed /\ tab.timer = old.timer /\ tab.offer = NoOne
      /\ tab.items = old.items /\ tab.filter = old.filter /\ tab.open = old.open
      /\ tab.unseen = old.unseen /\ tab.late = old.late
  BY <1>2, <1>3 DEF TabFine, Tab
<1> HIDE DEF tab
<1>5. TabFine(tab) BY <1>2, <1>3, <1>4 DEF TabFine
<1> QED BY <1>1, <1>4, <1>5, PageStep DEF old

LEMMA DoneClearsStep ==
    ASSUME BookIInv, NEW p \in Page, DoneClears(p)
    PROVE  BookIInv'
<1> DEFINE old == page[p]
           tab == [old EXCEPT !.done = FALSE]
<1>1. page' = [page EXCEPT ![p] = tab] /\ UNCHANGED <<stored, call>> BY DEF DoneClears
<1>2. TabFine(old) BY DEF BookIInv
<1> HIDE DEF old
<1>3. /\ TabFine(tab) /\ tab.items = old.items /\ tab.filter = old.filter
      /\ tab.open = old.open /\ tab.unseen = old.unseen /\ tab.late = old.late
  BY <1>2 DEF TabFine, Tab
<1> HIDE DEF tab
<1> QED BY <1>1, <1>3, PageStep DEF old

LEMMA LeaveStep ==
    ASSUME BookIInv, NEW p \in Page, Leave(p)
    PROVE  BookIInv'
<1> DEFINE old == page[p]
           armed == old.armed \ {old.timer}
           tab == [PageOn(<<>>) EXCEPT !.open = FALSE, !.armed = armed]
<1>1. page' = [page EXCEPT ![p] = tab] /\ UNCHANGED <<stored, call>> BY DEF Leave
<1>2. armed = {} BY DEF BookIInv, TabFine
<1>3. Listed(<<>>, Key \X Info) = {} BY DEF Listed, Entries
<1> HIDE DEF armed
<1>4. tab \in Tab /\ tab.armed = {} /\ tab.offer = NoOne /\ ~tab.open
  BY <1>2, <1>3 DEF PageOn, Tab, Filters
<1> HIDE DEF tab
<1>5. TabFine(tab) BY <1>4 DEF TabFine
<1> QED BY <1>1, <1>4, <1>5, PageStep

LEMMA BookNext ==
    ASSUME BookIInv, [Next]_vars
    PROVE  BookIInv'
<1>1. CASE UNCHANGED vars
  <2>1. /\ stored' = stored /\ call' = call /\ page' = page BY <1>1 DEF vars
  <2> QED BY <2>1 DEF BookIInv, Book, Named, OneSubmit, UpToDate, Listed
<1>2. CASE \E p \in Page, c \in Call : Click(p, c) \/ Expire(p, c)
  BY <1>2, ClickStep, ExpireStep
<1>3. CASE \E c \in Call : Load(c) \/ Save(c) \/ Fails(c) \/ ListAgain(c)
  BY <1>3, LoadStep, SaveStep, FailsStep, ListAgainStep
<1>4. CASE \E p \in Page : DoneClears(p) \/ Leave(p)
  BY <1>4, DoneClearsStep, LeaveStep
<1> QED BY <1>1, <1>2, <1>3, <1>4 DEF Next

-----------------------------------------------------------------------------
\* The invariant holds in every state, however the calls of the tabs overlap.
THEOREM BookInvariance == Spec => []BookIInv
<1>1. Init => BookIInv BY BookInit
<1>2. BookIInv /\ [Next]_vars => BookIInv' BY BookNext
<1> QED BY <1>1, <1>2, PTL DEF Spec

\* The book and every loaded list hold entries, each id once; one submission
\* of a page's form at a time (AddressBookPage.tsx, local-address-book.ts).
THEOREM BookTypeCorrect == Spec => []BookTypeOK
<1>1. BookIInv => BookTypeOK
  <2> SUFFICES ASSUME BookIInv PROVE BookTypeOK OBVIOUS
  <2>1. ASSUME NEW c \in Call
        PROVE  /\ call[c].list \in Seq(Entry)
               /\ \A i, j \in DOMAIN call[c].list :
                    call[c].list[i].id = call[c].list[j].id => i = j
    <3>1. CallFine(call[c]) BY DEF BookIInv
    <3>2. CASE call[c].step = "save" BY <3>1, <3>2 DEF CallFine, Book
    <3>3. CASE call[c].step # "save"
      <4>1. call[c].list = <<>> BY <3>1, <3>3 DEF CallFine
      <4> QED BY <4>1
    <3> QED BY <3>2, <3>3
  <2>2. /\ stored \in Seq(Entry)
        /\ \A i, j \in DOMAIN stored : stored[i].id = stored[j].id => i = j
    BY DEF BookIInv, Book
  <2>3. ASSUME NEW p \in Page
        PROVE  /\ page[p].items \subseteq Entry /\ page[p].offer \in Entry \cup {NoOne}
               /\ page[p].armed \subseteq Call
    BY DEF BookIInv, TabFine, Tab
  <2>4. ASSUME NEW p \in Page, NEW c \in Running(p), NEW d \in Running(p),
               call[c].op = "submit", call[d].op = "submit"
        PROVE  c = d
    BY <2>4, BookAssumption DEF Running, BookIInv, OneSubmit
  <2> QED BY <2>1, <2>2, <2>3, <2>4 DEF BookTypeOK
<1> QED BY <1>1, BookInvariance, PTL

\* No address is in the book twice (local-address-book.ts:40-69, 94-99).
THEOREM EachAddressOnce == Spec => []OneActivePerKey
<1>1. BookIInv => OneActivePerKey
  BY DEF BookIInv, Book, OneActivePerKey, ActiveWith
<1> QED BY <1>1, BookInvariance, PTL

\* A page whose calls are through shows the book (useAddressBook.ts:12-26).
THEOREM PagesShowTheBook == Spec => []ShowsTheBook
<1>1. BookIInv => ShowsTheBook
  BY DEF BookIInv, UpToDate, ShowsTheBook, Running
<1> QED BY <1>1, BookInvariance, PTL

\* The offer to undo a deletion has its own timer and no other
\* (AddressBookPage.tsx:73, 97-102).
THEOREM OffersKeepTheirTime == Spec => []OfferKeepsItsTime
<1>1. BookIInv => OfferKeepsItsTime BY DEF BookIInv, TabFine, OfferKeepsItsTime
<1> QED BY <1>1, BookInvariance, PTL

\* An entry or its uses are lost only to a save whose list lacks them
\* (local-address-book.ts:55-69, 106-114).
THEOREM OnlyStaleSavesForget == Spec => NothingForgotten
<1> DEFINE Kept(e, b) == \E d \in Entries(b) : d.id = e.id /\ d.uses >= e.uses
           Step == \A e \in Entries(stored) :
                     \/ \E d \in Entries(stored') : d.id = e.id /\ d.uses >= e.uses
                     \/ \E c \in Call : /\ call[c].step = "save"
                                        /\ call'[c].step # "save"
                                        /\ ~ \E d \in Entries(call[c].list) :
                                               d.id = e.id /\ d.uses >= e.uses
<1>1. ASSUME BookIInv, [Next]_vars, stored' # stored
      PROVE  Step
  <2>1. PICK c \in Call : Save(c)
    BY <1>1 DEF Next, vars, Click, Submit, HandleUndo, HandleDelete, OnUse, Update, Reload,
                SetFilter, Expire, Load, Fails, ListAgain, DoneClears, Leave
  <2>2. /\ call[c].step = "save" /\ call'[c].step # "save"
    BY <1>1, <2>1 DEF Save, BookIInv, CallFine, CallRecord
  <2>3. ASSUME NEW e \in Entries(stored), Kept(e, call[c].list)
        PROVE  Kept(e, stored')
    <3>1. PICK i \in DOMAIN call[c].list :
              call[c].list[i].id = e.id /\ call[c].list[i].uses >= e.uses
      BY <2>3 DEF Entries
    <3>2. /\ i \in DOMAIN stored' /\ stored'[i].id = e.id
          /\ stored'[i].uses >= call[c].list[i].uses
      BY <1>1, <2>1, <3>1, SaveResult DEF Keeps
    <3>3. e.uses \in Nat /\ call[c].list[i].uses \in Nat /\ stored'[i].uses \in Nat
      <4>1. Book(stored) /\ Book(stored') /\ Book(call[c].list)
        BY <1>1, <2>1, SaveResult DEF BookIInv
      <4> QED BY <4>1, <3>1, <3>2, BookFields DEF Entries
    <3>4. stored'[i].uses >= e.uses BY <3>1, <3>2, <3>3
    <3> QED BY <3>2, <3>4 DEF Entries
  <2> QED BY <2>1, <2>2, <2>3
<1>2. ASSUME BookIInv, [Next]_vars, stored' = stored
      PROVE  Step
  <2>1. ASSUME NEW e \in Entries(stored) PROVE e.uses \in Nat
    BY <1>2, BookFields DEF Entries, BookIInv
  <2> QED BY <1>2, <2>1 DEF Entries
<1>3. BookIInv /\ [Next]_vars =>
        [\A e \in Entries(stored) :
           \/ \E d \in Entries(stored') : d.id = e.id /\ d.uses >= e.uses
           \/ \E c \in Call : /\ call[c].step = "save"
                             /\ call'[c].step # "save"
                             /\ ~ \E d \in Entries(call[c].list) :
                                    d.id = e.id /\ d.uses >= e.uses]_vars
  BY <1>1, <1>2
<1> HIDE DEF Step
<1> QED BY <1>3, BookInvariance, PTL DEF Spec, NothingForgotten
=============================================================================
