--------------------------- MODULE MCAddressBook ---------------------------
\* An instance of AddressBook for TLC: two tabs, three clicks, two addresses, one name,
\* a filter for all and one for the first address; a book with an entry, or
\* with a deleted one beside an active one.
EXTENDS AddressBook, TLC

CONSTANTS t1, t2, c1, c2, c3, k1, k2, alice, e1, e2

MCPage == {t1, t2}
MCCall == {c1, c2, c3}
MCKey == {k1, k2}
MCInfo == {alice}
MCFilter == {MCKey \X MCInfo, {k1} \X MCInfo}

Kept(id, k, gone) == [id |-> id, key |-> k, info |-> alice, deleted |-> gone, uses |-> 0]
MCOldBooks == {<<Kept(e1, k1, FALSE)>>, <<Kept(e1, k1, TRUE), Kept(e2, k2, FALSE)>>}

Clicks == Permutations(MCPage) \cup Permutations(MCCall)
=============================================================================
