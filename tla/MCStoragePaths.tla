---------------------------- MODULE MCStoragePaths ----------------------------
(* Instances of StoragePaths for TLC.                                         *)
EXTENDS StoragePaths, TLC

InUser(n)  == <<Slash, "data", Slash, "user", Slash>> \o n
InMedia(n) == <<Slash, "data", Slash, "media", Slash>> \o n
MCSymmetry == Permutations(Programs)

One == <<"1">>
Ten == <<"1", "0">>
AtRoot == <<Slash, "a">>

\* Two users whose numbers begin alike, the two storages of one, and a
\* directory in "/".
MCStorages == {InUser(One), InUser(Ten), InMedia(One), AtRoot}
MCUserPaths == <<InUser(One) \o <<Slash>>, InMedia(One) \o <<Slash>>>>
\* As the user calls spell them, with slashes at the end, and what is refused:
\* the root, a relative path, nothing, a directory that is not there.
MCSpellings == {InUser(One), InUser(One) \o <<Slash, Slash>>, InUser(Ten), InMedia(One),
                AtRoot, <<Slash>>, <<"a">>, <<>>, InMedia(Ten)}

MCUsed == {InUser(One), InUser(Ten)}

\* This instance is one the theorems of StoragePaths_proofs are about.
ASSUME MCAssumption ==
  UserPaths = MCUserPaths => PlainNames /\ DigestCovers /\ UserStorages /\ Apart /\ Attempts > 1

\* Two storages whose paths share the sixty-four bytes the digest is made from.
Deep(n) == <<Slash, "data", Slash, "a directory far below", Slash, n>>
LongStorages == {Deep("one"), Deep("two")}
LongUserPaths == <<Deep("one")>>

=============================================================================
