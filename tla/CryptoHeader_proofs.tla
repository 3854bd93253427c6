------------------------- MODULE CryptoHeader_proofs -------------------------
(* What is stored is sealed, what check_passwd lets pass is genuine, and      *)
(* crypto.c implements KeyFile: for any processes, passwords and material,    *)
(* and any number of cut-off writes.                                          *)
EXTENDS CryptoHeader, TLAPS

\* The signature of the material m, and a header that holds m in the open.
Hash(m) == <<"hash", Plain(<<"fefek", m>>), Plain(<<"fnek", m>>), m>>
Opened(h, m) == /\ h = [fefek |-> Plain(<<"fefek", m>>), fnek |-> Plain(<<"fnek", m>>),
                        salt |-> m, signature |-> Plain(Hash(m)), stat |-> h.stat]

\* A field that is sealed once or overwritten by half a write, and a signature
\* that is, or was made for one of the pairs P.
KeyField(b) == b = Junk \/ b = [is |-> b.is, by |-> <<b.by[1]>>]
Signs(s, m, w) == s = [is |-> Hash(m), by |-> <<pbkdf2(w, m)>>]
SigField(s, P) == s = Junk \/ \E m, w : <<m, w>> \in P /\ Signs(s, m, w)
Shaped(h) == h = [fefek |-> h.fefek, fnek |-> h.fnek, salt |-> h.salt,
                  signature |-> h.signature, stat |-> h.stat]
Stored(h, P) ==
  Shaped(h) /\ KeyField(h.fefek) /\ KeyField(h.fnek) /\ SigField(h.signature, P)

Arrays == DOMAIN pc = Procs /\ DOMAIN call = Procs /\ DOMAIN header = Procs
MadeInv == \A m, w : <<m, w>> \in protects => m \in made
WriteInv(p) == pc[p] = "write" => Stored(header[p], protects)
KeysInv(p)  == pc[p] = "add_keys" =>
                 \E m : <<m, call[p].pw>> \in protects /\ Opened(header[p], m)
\* The inductive invariant.
HeaderInv ==
  /\ Arrays /\ MadeInv /\ Stored(file.holds, protects)
  /\ \A p \in Procs : WriteInv(p) /\ KeysInv(p)

-----------------------------------------------------------------------------
(* Buffers and headers.                                                      *)

\* Opening a buffer that was sealed once.
LEMMA DecryptOnce ==
  ASSUME NEW v, NEW j, NEW k
  PROVE  /\ decrypt_buffer([is |-> v, by |-> <<j>>], k) = IF j = k THEN Plain(v) ELSE Junk
         /\ decrypt_buffer(Junk, k) = Junk
<1>1. SubSeq(<<j>>, 1, Len(<<j>>) - 1) = <<>>
  OBVIOUS
<1>2. <<j>> # <<>> /\ <<j>>[Len(<<j>>)] = j
  OBVIOUS
<1> QED BY <1>1, <1>2 DEF decrypt_buffer, Plain, Junk

\* Sealing an open one.
LEMMA EncryptOnce ==
  ASSUME NEW v, NEW k
  PROVE  encrypt_buffer(Plain(v), k) = [is |-> v, by |-> <<k>>]
BY Append(<<>>, k) = <<k>> DEF encrypt_buffer, Plain

\* encrypt_crypto_header and decrypt_crypto_header replace three fields.
LEMMA ThreeFields ==
  ASSUME NEW h, Shaped(h), NEW a, NEW b, NEW c
  PROVE  [h EXCEPT !.fefek = a, !.fnek = b, !.signature = c]
           = [fefek |-> a, fnek |-> b, salt |-> h.salt, signature |-> c, stat |-> h.stat]
<1> DEFINE g == [h EXCEPT !.fefek = a, !.fnek = b, !.signature = c]
           r == [fefek |-> a, fnek |-> b, salt |-> h.salt, signature |-> c, stat |-> h.stat]
<1>1. DOMAIN h = {"fefek", "fnek", "salt", "signature", "stat"}
  BY DEF Shaped
<1>2. DOMAIN g = DOMAIN h /\ DOMAIN r = DOMAIN h
  BY <1>1
<1>3. g.fefek = a /\ g.fnek = b /\ g.signature = c
  BY <1>1
<1>4. g.salt = h.salt /\ g.stat = h.stat
  BY <1>1
<1>5. /\ r.fefek = a /\ r.fnek = b /\ r.signature = c
      /\ r.salt = h.salt /\ r.stat = h.stat
  OBVIOUS
<1>6. g = [f \in DOMAIN g |-> g[f]] /\ r = [f \in DOMAIN r |-> r[f]]
  OBVIOUS
<1>7. g = r
  <2> HIDE DEF g, r
  <2> QED BY <1>1, <1>2, <1>3, <1>4, <1>5, <1>6
<1> QED BY <1>7

\* More passwords leave a stored header stored.
LEMMA StoredGrows ==
  ASSUME NEW P, NEW Q, P \subseteq Q, NEW h, Stored(h, P)
  PROVE  Stored(h, Q)
BY DEF Stored, SigField

\* An empty header counts as stored.
LEMMA EmptyStored == ASSUME NEW P PROVE Stored(Empty, P)
BY DEF Stored, Shaped, Empty, KeyField, SigField

\* A status written into a stored header leaves it stored.
LEMMA StatusStored ==
  ASSUME NEW P, NEW h, Stored(h, P), NEW s
  PROVE  Stored([h EXCEPT !.stat = s], P)
<1> DEFINE g == [h EXCEPT !.stat = s]
<1>1. g = [fefek |-> h.fefek, fnek |-> h.fnek, salt |-> h.salt,
           signature |-> h.signature, stat |-> s]
  BY DEF Stored, Shaped
<1> QED BY <1>1 DEF Stored, Shaped

\* What encrypt_crypto_header makes of an open header is stored.
LEMMA SealedStored ==
  ASSUME NEW P, NEW h, NEW m, NEW w, Opened(h, m), <<m, w>> \in P
  PROVE  Stored(Sealed(h, w), P)
<1> DEFINE k == pbkdf2(w, m)
           g == [fefek |-> [is |-> <<"fefek", m>>, by |-> <<k>>],
                 fnek |-> [is |-> <<"fnek", m>>, by |-> <<k>>],
                 salt |-> m, signature |-> [is |-> Hash(m), by |-> <<k>>], stat |-> h.stat]
<1>1. /\ h.fefek = Plain(<<"fefek", m>>) /\ h.fnek = Plain(<<"fnek", m>>)
      /\ h.salt = m /\ h.signature = Plain(Hash(m))
  BY DEF Opened
<1>2. Shaped(h)
  BY <1>1 DEF Opened, Shaped
<1>3. /\ encrypt_buffer(h.fefek, k) = g.fefek /\ encrypt_buffer(h.fnek, k) = g.fnek
      /\ encrypt_buffer(h.signature, k) = g.signature
  BY <1>1, EncryptOnce
<1>4. Sealed(h, w) = g
  <2>1. Sealed(h, w) = [h EXCEPT !.fefek = g.fefek, !.fnek = g.fnek,
                                 !.signature = g.signature]
    BY <1>1, <1>3 DEF Sealed, encrypt_crypto_header
  <2>2. Sealed(h, w) = [fefek |-> g.fefek, fnek |-> g.fnek, salt |-> h.salt,
                        signature |-> g.signature, stat |-> h.stat]
    <3> HIDE DEF g
    <3> QED BY <1>2, <2>1, ThreeFields
  <2> QED BY <1>1, <2>2
<1>5. Signs(g.signature, m, w)
  BY DEF Signs
<1>6. KeyField(g.fefek) /\ KeyField(g.fnek)
  BY DEF KeyField
<1>7. Shaped(g)
  BY DEF Shaped
<1> QED BY <1>4, <1>5, <1>6, <1>7 DEF Stored, SigField

\* Every field of a cut-off write is the new one, the old one or scrap.
LEMMA OverwrittenStored ==
  ASSUME NEW P, NEW new, NEW old, Stored(new, P), Stored(old, P), NEW n, NEW into
  PROVE  Stored(Overwritten(new, old, n, into), P)
<1> DEFINE g == Overwritten(new, old, n, into)
<1>1. DOMAIN Field = {"fefek", "fnek", "salt", "signature", "stat"}
  BY DEF Field
<1>2. g = [f \in DOMAIN Field |-> g[f]]
  BY DEF Overwritten
<1>3. Shaped(g)
  BY <1>1, <1>2 DEF Shaped
<1>4. \A f \in DOMAIN Field : g[f] \in {new[f], old[f], Scrap[f]}
  BY DEF Overwritten
<1>5. Scrap.fefek = Junk /\ Scrap.fnek = Junk /\ Scrap.signature = Junk
  BY DEF Scrap, Empty
<1>6. /\ g.fefek \in {new.fefek, old.fefek, Junk}
      /\ g.fnek \in {new.fnek, old.fnek, Junk}
      /\ g.signature \in {new.signature, old.signature, Junk}
  BY <1>1, <1>4, <1>5
<1>7. KeyField(g.fefek) /\ KeyField(g.fnek)
  BY <1>6 DEF Stored, KeyField
<1>8. SigField(g.signature, P)
  BY <1>6 DEF Stored, SigField
<1> QED BY <1>3, <1>7, <1>8 DEF Stored

\* check_passwd lets nothing pass but what was generated as one and sealed with
\* that password: a mixed header opens to no digest of its own.
LEMMA CheckedIsGenuine ==
  ASSUME NEW P, NEW h, NEW pw, Stored(h, P), check_passwd(h, pw)
  PROVE  <<h.salt, pw>> \in P /\ Opened(Decrypted(h, pw), h.salt)
<1> DEFINE k == pbkdf2(pw, h.salt)
           D == Decrypted(h, pw)
<1>1. D = [fefek |-> decrypt_buffer(h.fefek, k), fnek |-> decrypt_buffer(h.fnek, k),
           salt |-> h.salt, signature |-> decrypt_buffer(h.signature, k), stat |-> h.stat]
  <2>1. Shaped(h)
    BY DEF Stored
  <2>2. D = [h EXCEPT !.fefek = decrypt_buffer(h.fefek, k), !.fnek = decrypt_buffer(h.fnek, k),
                      !.signature = decrypt_buffer(h.signature, k)]
    BY DEF Decrypted, decrypt_crypto_header
  <2> HIDE DEF k, D
  <2> QED BY <2>1, <2>2, ThreeFields
<1>2. decrypt_buffer(h.signature, k) = Plain(<<"hash", D.fefek, D.fnek, D.salt>>)
  BY <1>1 DEF check_passwd, Digest
<1>3. h.signature # Junk
  <2>1. <<"junk">> # <<"hash", D.fefek, D.fnek, D.salt>>
    OBVIOUS
  <2>2. Junk # Plain(<<"hash", D.fefek, D.fnek, D.salt>>)
    BY <2>1 DEF Junk, Plain
  <2> QED BY <1>2, <2>2, DecryptOnce
<1>4. PICK m, w : <<m, w>> \in P /\ Signs(h.signature, m, w)
  BY <1>3 DEF Stored, SigField
<1>5. decrypt_buffer(h.signature, k) = IF pbkdf2(w, m) = k THEN Plain(Hash(m)) ELSE Junk
  BY <1>4, DecryptOnce DEF Signs
<1>6. Junk # Plain(<<"hash", D.fefek, D.fnek, D.salt>>)
  <2>1. <<"junk">> # <<"hash", D.fefek, D.fnek, D.salt>>
    OBVIOUS
  <2> QED BY <2>1 DEF Junk, Plain
<1>7. w = pw /\ m = h.salt /\ Plain(Hash(m)) = Plain(<<"hash", D.fefek, D.fnek, D.salt>>)
  BY <1>2, <1>5, <1>6 DEF pbkdf2
<1>8. Hash(m) = <<"hash", D.fefek, D.fnek, D.salt>>
  BY <1>7 DEF Plain
<1>9. D.fefek = Plain(<<"fefek", m>>) /\ D.fnek = Plain(<<"fnek", m>>)
  BY <1>8 DEF Hash
<1>10. D.signature = Plain(Hash(m))
  BY <1>1, <1>2, <1>7
<1> QED BY <1>1, <1>4, <1>7, <1>9, <1>10 DEF Opened

-----------------------------------------------------------------------------
(* One lemma per action.                                                     *)

\* p takes the step s next, in the call c, with the header h; nobody else moves.
Moves(p, s, c, h) ==
  /\ Arrays' /\ pc'[p] = s /\ call'[p] = c /\ header'[p] = h
  /\ \A q \in Procs \ {p} : pc'[q] = pc[q] /\ call'[q] = call[q] /\ header'[q] = header[q]

\* What Goto, Fill and Done do.
LEMMA GotoMoves ==
  ASSUME Arrays, NEW p \in Procs, NEW s, Goto(p, s)
  PROVE  Moves(p, s, call[p], header[p])
BY DEF Arrays, Goto, Moves

LEMMA FillMoves ==
  ASSUME Arrays, NEW p \in Procs, NEW h, NEW s, Fill(p, h, s)
  PROVE  Moves(p, s, call[p], h)
BY DEF Arrays, Fill, Moves

LEMMA DoneMoves ==
  ASSUME Arrays, NEW p \in Procs, Done(p)
  PROVE  Moves(p, "idle", NoCall, Empty)
BY DEF Arrays, Done, Moves

\* A step keeps the invariant when the file, and what the process that takes it
\* holds then, are in order, and no password is forgotten.
LEMMA MoveKeeps ==
  ASSUME HeaderInv, NEW p \in Procs, NEW s, NEW c, NEW h, Moves(p, s, c, h),
         protects \subseteq protects', MadeInv', Stored(file.holds, protects)',
         s = "write" => Stored(h, protects'),
         s = "add_keys" => \E m : <<m, c.pw>> \in protects' /\ Opened(h, m)
  PROVE  HeaderInv'
<1>1. \A q \in Procs : WriteInv(q)'
  <2> TAKE q \in Procs
  <2>1. CASE q = p
    BY <2>1 DEF Moves, WriteInv
  <2>2. CASE q # p /\ pc[q] = "write"
    <3>1. Stored(header[q], protects)
      BY <2>2 DEF HeaderInv, WriteInv
    <3>2. Stored(header[q], protects')
      BY <3>1, StoredGrows
    <3> QED BY <2>2, <3>2 DEF Moves, WriteInv
  <2>3. CASE q # p /\ pc[q] # "write"
    BY <2>3 DEF Moves, WriteInv
  <2> QED BY <2>1, <2>2, <2>3
<1>2. \A q \in Procs : KeysInv(q)'
  <2> TAKE q \in Procs
  <2>1. CASE q = p
    BY <2>1 DEF Moves, KeysInv
  <2>2. CASE q # p
    <3>1. KeysInv(q)
      BY DEF HeaderInv
    <3> QED BY <2>2, <3>1 DEF Moves, KeysInv
  <2> QED BY <2>1, <2>2
<1>3. Arrays'
  BY DEF Moves
<1> QED BY <1>1, <1>2, <1>3 DEF HeaderInv

\* A step of one process that leaves the file and the passwords as they are, and
\* neither writes nor mounts next.
LEMMA QuietKeeps ==
  ASSUME HeaderInv, NEW p \in Procs, NEW s, NEW c, NEW h, Moves(p, s, c, h),
         UNCHANGED <<file, ghosts>>, s \notin {"write", "add_keys"}
  PROVE  HeaderInv'
<1>1. MadeInv' /\ Stored(file.holds, protects)'
  BY DEF HeaderInv, MadeInv, ghosts
<1>2. protects \subseteq protects'
  BY DEF ghosts
<1> QED BY <1>1, <1>2, MoveKeeps

LEMMA InitKeeps == Init => HeaderInv
<1> SUFFICES ASSUME Init PROVE HeaderInv
  OBVIOUS
<1>1. Stored(file.holds, protects)
  BY EmptyStored DEF Init, NoFile
<1>2. \A p \in Procs : WriteInv(p) /\ KeysInv(p)
  BY DEF Init, WriteInv, KeysInv
<1> QED BY <1>1, <1>2 DEF Init, HeaderInv, Arrays, MadeInv

LEMMA StartKeeps ==
  ASSUME HeaderInv, NEW p \in Procs, NEW c, c.op \in HeaderOps, Start(p, c)
  PROVE  HeaderInv'
<1>1. Moves(p, FirstStep[c.op], c, header[p])
  BY DEF HeaderInv, Arrays, Start, Moves
<1>2. FirstStep[c.op] \notin {"write", "add_keys"}
  BY DEF FirstStep, HeaderOps
<1>3. UNCHANGED <<file, ghosts>>
  BY DEF Start, disk
<1> QED BY <1>1, <1>2, <1>3, QuietKeeps

LEMMA MakePrivateDirKeeps ==
  ASSUME HeaderInv, NEW p \in Procs, MakePrivateDir(p)
  PROVE  HeaderInv'
<1>1. UNCHANGED <<file, ghosts>>
  BY DEF MakePrivateDir
<1>2. Arrays
  BY DEF HeaderInv
<1>3. CASE Goto(p, "generate")
  BY <1>1, <1>2, <1>3, GotoMoves, QuietKeeps
<1>4. CASE Done(p)
  BY <1>1, <1>2, <1>4, DoneMoves, QuietKeeps
<1> QED BY <1>3, <1>4 DEF MakePrivateDir

LEMMA GenerateKeeps ==
  ASSUME HeaderInv, NEW p \in Procs, Generate(p)
  PROVE  HeaderInv'
<1> DEFINE w == call[p].pw
<1>1. PICK m \in Keys \ made :
        /\ Fill(p, Sealed(Fresh(m), w), "write")
        /\ made' = made \cup {m} /\ protects' = protects \cup {<<m, w>>}
  BY DEF Generate
<1>2. Moves(p, "write", call[p], Sealed(Fresh(m), w))
  BY <1>1, FillMoves DEF HeaderInv
<1>3. Opened(Fresh(m), m)
  BY DEF Opened, Fresh, Hash, Digest
<1>4. Stored(Sealed(Fresh(m), w), protects')
  BY <1>1, <1>3, SealedStored
<1>5. MadeInv'
  <2> SUFFICES ASSUME NEW n, NEW v, <<n, v>> \in protects' PROVE n \in made'
    BY DEF MadeInv
  <2>1. CASE <<n, v>> \in protects
    BY <1>1, <2>1 DEF HeaderInv, MadeInv
  <2>2. CASE <<n, v>> = <<m, w>>
    BY <1>1, <2>2
  <2> QED BY <1>1, <2>1, <2>2
<1>6. Stored(file.holds, protects)'
  <2>1. file' = file
    BY DEF Generate, disk
  <2>2. Stored(file.holds, protects')
    BY <1>1, StoredGrows DEF HeaderInv
  <2> QED BY <2>1, <2>2
<1> HIDE DEF w
<1> QED BY <1>1, <1>2, <1>4, <1>5, <1>6, MoveKeeps

LEMMA ReadForStatusKeeps ==
  ASSUME HeaderInv, NEW p \in Procs, ReadForStatus(p)
  PROVE  HeaderInv'
<1> DEFINE h == [file.holds EXCEPT !.stat = "completed"]
<1>1. Moves(p, "write", call[p], h)
  BY FillMoves DEF HeaderInv, ReadForStatus
<1>2. UNCHANGED <<file, made, protects>>
  BY DEF ReadForStatus, disk, ghosts
<1>3. Stored(h, protects')
  BY <1>2, StatusStored DEF HeaderInv
<1>4. MadeInv' /\ Stored(file.holds, protects)'
  BY <1>2 DEF HeaderInv, MadeInv
<1> HIDE DEF h
<1> QED BY <1>1, <1>2, <1>3, <1>4, MoveKeeps

LEMMA ReadForChangeKeeps ==
  ASSUME HeaderInv, NEW p \in Procs, ReadForChange(p)
  PROVE  HeaderInv'
<1>1. file' = file /\ made' = made
  BY DEF ReadForChange, disk
<1>2. CASE /\ check_passwd(file.holds, call[p].pw)
           /\ Fill(p, Sealed(Decrypted(file.holds, call[p].pw), call[p].new), "write")
           /\ protects' = protects \cup {<<file.holds.salt, call[p].new>>}
  <2> DEFINE m == file.holds.salt
             w == call[p].pw
             n == call[p].new
  <2>1. <<m, w>> \in protects /\ Opened(Decrypted(file.holds, w), m)
    BY <1>2, CheckedIsGenuine DEF HeaderInv
  <2>2. Stored(Sealed(Decrypted(file.holds, w), n), protects')
    BY <1>2, <2>1, SealedStored
  <2>3. Moves(p, "write", call[p], Sealed(Decrypted(file.holds, w), n))
    BY <1>2, FillMoves DEF HeaderInv
  <2>4. MadeInv'
    <3> SUFFICES ASSUME NEW k, NEW v, <<k, v>> \in protects' PROVE k \in made'
      BY DEF MadeInv
    <3>1. m \in made
      BY <2>1 DEF HeaderInv, MadeInv
    <3>2. CASE <<k, v>> \in protects
      BY <1>1, <3>2 DEF HeaderInv, MadeInv
    <3>3. CASE <<k, v>> = <<m, n>>
      BY <1>1, <3>1, <3>3
    <3> QED BY <1>2, <3>2, <3>3
  <2>5. Stored(file.holds, protects)'
    <3>1. Stored(file.holds, protects')
      BY <1>2, StoredGrows DEF HeaderInv
    <3> QED BY <1>1, <3>1
  <2>6. protects \subseteq protects'
    BY <1>2
  <2> HIDE DEF m, w, n
  <2> QED BY <2>2, <2>3, <2>4, <2>5, <2>6, MoveKeeps
<1>3. CASE Done(p) /\ UNCHANGED protects
  <2>1. Moves(p, "idle", NoCall, Empty)
    BY <1>3, DoneMoves DEF HeaderInv
  <2> QED BY <1>1, <1>3, <2>1, QuietKeeps DEF ghosts
<1> QED BY <1>2, <1>3 DEF ReadForChange

LEMMA WriteHeaderKeeps ==
  ASSUME HeaderInv, NEW p \in Procs, WriteHeader(p)
  PROVE  HeaderInv'
<1>1. UNCHANGED <<made, protects>>
  BY DEF WriteHeader, ghosts
<1>2. Stored(header[p], protects) /\ Stored(file.holds, protects)
  BY DEF HeaderInv, WriteInv, WriteHeader
<1>3. MadeInv' /\ protects \subseteq protects'
  BY <1>1 DEF HeaderInv, MadeInv
<1>4. CASE file' = Whole(header[p]) /\ (Fill(p, Empty, "mount") \/ Done(p))
  <2>1. Stored(file.holds, protects)'
    BY <1>1, <1>2, <1>4 DEF Whole
  <2>2. Moves(p, "mount", call[p], Empty) \/ Moves(p, "idle", NoCall, Empty)
    BY <1>4, FillMoves, DoneMoves DEF HeaderInv
  <2> QED BY <1>3, <2>1, <2>2, MoveKeeps
<1>5. CASE file' \in CutOff(header[p]) /\ Done(p)
  <2>1. Stored(file'.holds, protects)
    <3>1. CASE file.size = "whole"
      <4>1. PICK n \in 1..5, into \in BOOLEAN :
              file' = Whole(Overwritten(header[p], file.holds, n, into))
        BY <1>5, <3>1 DEF CutOff
      <4> QED BY <1>2, <4>1, OverwrittenStored DEF Whole
    <3>2. CASE file.size # "whole"
      BY <1>5, <3>2, EmptyStored DEF CutOff, Partial
    <3> QED BY <3>1, <3>2
  <2>2. Moves(p, "idle", NoCall, Empty)
    BY <1>5, DoneMoves DEF HeaderInv
  <2>3. Stored(file.holds, protects)'
    BY <1>1, <2>1
  <2> QED BY <1>3, <2>2, <2>3, MoveKeeps
<1> QED BY <1>4, <1>5 DEF WriteHeader

LEMMA OpenHeaderKeeps ==
  ASSUME HeaderInv, NEW p \in Procs, OpenHeader(p)
  PROVE  HeaderInv'
<1>1. UNCHANGED <<file, made, protects>>
  BY DEF OpenHeader, disk, ghosts
<1>2. CASE /\ check_passwd(file.holds, call[p].pw)
           /\ Fill(p, Decrypted(file.holds, call[p].pw), "add_keys")
  <2> DEFINE h == Decrypted(file.holds, call[p].pw)
  <2>1. <<file.holds.salt, call[p].pw>> \in protects /\ Opened(h, file.holds.salt)
    BY <1>2, CheckedIsGenuine DEF HeaderInv
  <2>2. \E m : <<m, call[p].pw>> \in protects' /\ Opened(h, m)
    BY <1>1, <2>1
  <2>3. Moves(p, "add_keys", call[p], h)
    BY <1>2, FillMoves DEF HeaderInv
  <2>4. MadeInv' /\ Stored(file.holds, protects)' /\ protects \subseteq protects'
    BY <1>1 DEF HeaderInv, MadeInv
  <2> HIDE DEF h
  <2> QED BY <2>2, <2>3, <2>4, MoveKeeps
<1>3. CASE Done(p)
  <2>1. Moves(p, "idle", NoCall, Empty)
    BY <1>3, DoneMoves DEF HeaderInv
  <2> QED BY <1>1, <2>1, QuietKeeps DEF ghosts
<1> QED BY <1>2, <1>3 DEF OpenHeader

LEMMA AddKeysKeeps ==
  ASSUME HeaderInv, NEW p \in Procs, AddKeys(p)
  PROVE  HeaderInv'
<1>1. UNCHANGED <<file, ghosts>>
  BY DEF AddKeys, disk
<1>2. Moves(p, "status", call[p], Empty) \/ Moves(p, "idle", NoCall, Empty)
  BY FillMoves, DoneMoves DEF AddKeys, HeaderInv
<1> QED BY <1>1, <1>2, QuietKeeps

\* EFS_remove, and the steps that end a call early.
LEMMA RemovalKeeps ==
  ASSUME HeaderInv, NEW p \in Procs,
         ReadFails(p) \/ RemoveDir(p) \/ UnlinkKeyFile(p) \/ Abort(p)
  PROVE  HeaderInv'
<1>1. UNCHANGED ghosts /\ (UNCHANGED file \/ file' = NoFile)
  BY DEF ReadFails, RemoveDir, UnlinkKeyFile, Abort, disk
<1>2. \/ Moves(p, "unlink", call[p], header[p])
      \/ Moves(p, "idle", NoCall, Empty)
  <2>1. Goto(p, "unlink") \/ Done(p)
    BY DEF ReadFails, RemoveDir, UnlinkKeyFile, Abort
  <2> QED BY <2>1, GotoMoves, DoneMoves DEF HeaderInv
<1>3. MadeInv' /\ protects \subseteq protects'
  BY <1>1 DEF HeaderInv, MadeInv, ghosts
<1>4. Stored(file.holds, protects)'
  BY <1>1, EmptyStored DEF HeaderInv, NoFile, ghosts
<1> QED BY <1>2, <1>3, <1>4, MoveKeeps

\* Every step keeps the invariant.
LEMMA StepKeeps == HeaderInv /\ [Next]_vars => HeaderInv'
<1> SUFFICES ASSUME HeaderInv, [Next]_vars PROVE HeaderInv'
  OBVIOUS
<1>1. CASE UNCHANGED vars
  BY <1>1 DEF vars, disk, procs, ghosts, HeaderInv, Arrays, MadeInv, WriteInv, KeysInv
<1>2. ASSUME NEW p \in Procs, NEW c \in Args, Start(p, c)
      PROVE  HeaderInv'
  <2>1. c.op \in HeaderOps
    BY HeaderAssumption DEF Args
  <2> QED BY <1>2, <2>1, StartKeeps
<1>3. ASSUME NEW p \in Procs,
             \/ MakePrivateDir(p) \/ Generate(p) \/ ReadForStatus(p)
             \/ ReadForChange(p) \/ WriteHeader(p) \/ OpenHeader(p) \/ AddKeys(p)
      PROVE  HeaderInv'
  BY <1>3, MakePrivateDirKeeps, GenerateKeeps, ReadForStatusKeeps, ReadForChangeKeeps,
     WriteHeaderKeeps, OpenHeaderKeeps, AddKeysKeeps
<1>4. ASSUME NEW p \in Procs,
             ReadFails(p) \/ RemoveDir(p) \/ UnlinkKeyFile(p) \/ Abort(p)
      PROVE  HeaderInv'
  BY <1>4, RemovalKeeps
<1> QED BY <1>1, <1>2, <1>3, <1>4 DEF Next

-----------------------------------------------------------------------------
(* The theorems.                                                             *)

LEMMA StoredHides ==
  ASSUME NEW P, NEW h, Stored(h, P)
  PROVE  KeysHidden(h)
<1> SUFFICES ASSUME NEW b \in {h.fefek, h.fnek}, b # Junk PROVE Len(b.by) = 1
  BY DEF KeysHidden
<1>1. b = [is |-> b.is, by |-> <<b.by[1]>>]
  BY DEF Stored, KeyField
<1>2. b.by = <<b.by[1]>>
  BY <1>1
<1> QED BY <1>2

\* No master key is ever in the key file, or about to be written to it, in the
\* clear, whatever has been written, cut off or interleaved before.
THEOREM HiddenCorrect == Spec => []NoKeyInClear
<1>1. HeaderInv => NoKeyInClear
  BY StoredHides DEF HeaderInv, WriteInv, NoKeyInClear
<1> QED BY <1>1, InitKeeps, StepKeeps, PTL DEF Spec

\* The kernel gets two keys that were generated together, for a header sealed
\* with the password of the call: no mixture of headers passes check_passwd.
THEOREM GenuineCorrect == Spec => []MountedGenuine
<1>1. HeaderInv => MountedGenuine
  <2> SUFFICES ASSUME HeaderInv, NEW p \in Procs, pc[p] = "add_keys"
               PROVE  \E m \in made : /\ header[p].fefek = Plain(<<"fefek", m>>)
                                      /\ header[p].fnek = Plain(<<"fnek", m>>)
                                      /\ <<m, call[p].pw>> \in protects
    BY DEF MountedGenuine
  <2>1. PICK m : <<m, call[p].pw>> \in protects /\ Opened(header[p], m)
    BY DEF HeaderInv, KeysInv
  <2>2. m \in made
    BY <2>1 DEF HeaderInv, MadeInv
  <2> QED BY <2>1, <2>2 DEF Opened
<1> QED BY <1>1, InitKeeps, StepKeeps, PTL DEF Spec

-----------------------------------------------------------------------------
(* The refinement of KeyFile.  A stored header opens with the password all of *)
(* its fields were sealed with, and with no other.                           *)

Buffer(v, m, w) == [is |-> v, by |-> <<pbkdf2(w, m)>>]
Genuine(h, w) ==
  /\ h.fefek = Buffer(<<"fefek", h.salt>>, h.salt, w)
  /\ h.fnek = Buffer(<<"fnek", h.salt>>, h.salt, w)
  /\ h.signature = Buffer(Hash(h.salt), h.salt, w)

\* A key field that opens to something was sealed with that key.
LEMMA FieldOpened ==
  ASSUME NEW b, KeyField(b), NEW k, NEW v, v # <<"junk">>, decrypt_buffer(b, k) = Plain(v)
  PROVE  b = [is |-> v, by |-> <<k>>]
<1>1. Plain(v) # Junk
  BY DEF Plain, Junk
<1>2. b = [is |-> b.is, by |-> <<b.by[1]>>]
  BY <1>1, DecryptOnce DEF KeyField
<1>3. decrypt_buffer(b, k) = IF b.by[1] = k THEN Plain(b.is) ELSE Junk
  BY <1>2, DecryptOnce
<1>4. b.by[1] = k /\ Plain(b.is) = Plain(v)
  BY <1>1, <1>3
<1>5. b.is = v
  BY <1>4 DEF Plain
<1> QED BY <1>2, <1>4, <1>5

LEMMA OpensGenuine ==
  ASSUME NEW P, NEW h, NEW w, Stored(h, P)
  PROVE  check_passwd(h, w) <=> Genuine(h, w)
<1> DEFINE m == h.salt
           k == pbkdf2(w, m)
           D == Decrypted(h, w)
<1>1. /\ D.fefek = decrypt_buffer(h.fefek, k) /\ D.fnek = decrypt_buffer(h.fnek, k)
      /\ D.salt = m /\ D.signature = decrypt_buffer(h.signature, k)
  <2>1. Shaped(h)
    BY DEF Stored
  <2>2. D = [h EXCEPT !.fefek = decrypt_buffer(h.fefek, k), !.fnek = decrypt_buffer(h.fnek, k),
                      !.signature = decrypt_buffer(h.signature, k)]
    BY DEF Decrypted, decrypt_crypto_header
  <2>3. D = [fefek |-> decrypt_buffer(h.fefek, k), fnek |-> decrypt_buffer(h.fnek, k),
             salt |-> h.salt, signature |-> decrypt_buffer(h.signature, k), stat |-> h.stat]
    <3> HIDE DEF k, D
    <3> QED BY <2>1, <2>2, ThreeFields
  <2> QED BY <2>3
<1>2. ASSUME check_passwd(h, w) PROVE Genuine(h, w)
  <2>1. Opened(D, m)
    BY <1>2, CheckedIsGenuine
  <2>2. /\ decrypt_buffer(h.fefek, k) = Plain(<<"fefek", m>>)
        /\ decrypt_buffer(h.fnek, k) = Plain(<<"fnek", m>>)
        /\ decrypt_buffer(h.signature, k) = Plain(Hash(m))
    BY <1>1, <2>1 DEF Opened
  <2>3. <<"fefek", m>> # <<"junk">> /\ <<"fnek", m>> # <<"junk">> /\ Hash(m) # <<"junk">>
    BY DEF Hash
  <2>4. KeyField(h.fefek) /\ KeyField(h.fnek)
    BY DEF Stored
  <2>5. KeyField(h.signature)
    <3>1. CASE h.signature = Junk
      BY <3>1 DEF KeyField
    <3>2. ASSUME NEW n, NEW v, Signs(h.signature, n, v) PROVE KeyField(h.signature)
      BY <3>2 DEF Signs, KeyField
    <3> QED BY <3>1, <3>2 DEF Stored, SigField
  <2> HIDE DEF k, m
  <2>6. /\ h.fefek = [is |-> <<"fefek", m>>, by |-> <<k>>]
        /\ h.fnek = [is |-> <<"fnek", m>>, by |-> <<k>>]
        /\ h.signature = [is |-> Hash(m), by |-> <<k>>]
    BY <2>2, <2>3, <2>4, <2>5, FieldOpened
  <2> QED BY <2>6 DEF Genuine, Buffer, k, m
<1>3. ASSUME Genuine(h, w) PROVE check_passwd(h, w)
  <2>1. /\ decrypt_buffer(h.fefek, k) = Plain(<<"fefek", m>>)
        /\ decrypt_buffer(h.fnek, k) = Plain(<<"fnek", m>>)
        /\ decrypt_buffer(h.signature, k) = Plain(Hash(m))
    BY <1>3, DecryptOnce DEF Genuine, Buffer
  <2> QED BY <1>1, <2>1 DEF check_passwd, Digest, Hash
<1> QED BY <1>2, <1>3

LEMMA OneOpener ==
  ASSUME NEW h, NEW w, NEW v, Genuine(h, w), Genuine(h, v)
  PROVE  v = w
<1>1. Buffer(Hash(h.salt), h.salt, v) = Buffer(Hash(h.salt), h.salt, w)
  BY DEF Genuine
<1>2. <<pbkdf2(v, h.salt)>> = <<pbkdf2(w, h.salt)>>
  BY <1>1 DEF Buffer
<1> QED BY <1>2 DEF pbkdf2

\* What KeyFile sees of a header.
Shut(s) == [key |-> NoKey, pass |-> NoPassword, stat |-> s]
LEMMA SeenGenuine ==
  ASSUME NEW P, NEW h, NEW w \in Passwords, Stored(h, P), Genuine(h, w)
  PROVE  Seen(h) = [key |-> h.salt, pass |-> w, stat |-> h.stat]
<1>1. Opener(h) = {w}
  BY OpensGenuine, OneOpener DEF Opener
<1>2. (CHOOSE v \in {w} : TRUE) = w
  OBVIOUS
<1> QED BY <1>1, <1>2 DEF Seen
LEMMA SeenShut ==
  ASSUME NEW P, NEW h, Stored(h, P), \A w \in Passwords : ~Genuine(h, w)
  PROVE  Seen(h) = Shut(h.stat)
<1>1. Opener(h) = {}
  BY OpensGenuine DEF Opener
<1> QED BY <1>1 DEF Seen, Shut
LEMMA SeenStat == ASSUME NEW h PROVE Seen(h).stat = h.stat
BY DEF Seen

LEMMA EmptySeen == Seen(Empty) = Abstract!NoHeader
<1>1. \A w : ~Genuine(Empty, w)
  BY DEF Genuine, Empty, Junk, Buffer
<1>2. Seen(Empty) = Shut("absent")
  BY <1>1, EmptyStored, SeenShut DEF Empty
<1> QED BY <1>2 DEF Shut, Abstract!NoHeader

-----------------------------------------------------------------------------
(* Cut-off writes.                                                           *)

\* Two buffers that are equal were sealed for the same material and password.
LEMMA BufferSame ==
  ASSUME NEW u, NEW v, NEW m, NEW n, NEW w, NEW x, Buffer(u, m, w) = Buffer(v, n, x)
  PROVE  m = n /\ w = x
<1>1. <<pbkdf2(w, m)>> = <<pbkdf2(x, n)>>
  BY DEF Buffer
<1> QED BY <1>1 DEF pbkdf2

LEMMA BufferSealed == ASSUME NEW v, NEW m, NEW w PROVE Buffer(v, m, w) # Junk
BY DEF Buffer, Junk

\* A field of a cut-off write is the new one in front of the cut and the old one
\* behind it, unless it is scrap; the status is the old one.
CutFields(o, new, old, n) ==
  /\ o.fefek # Junk => o.fefek = IF n > 1 THEN new.fefek ELSE old.fefek
  /\ o.fnek # Junk => o.fnek = IF n > 2 THEN new.fnek ELSE old.fnek
  /\ o.salt # NoKey => o.salt = IF n > 3 THEN new.salt ELSE old.salt
  /\ o.signature # Junk => o.signature = IF n > 4 THEN new.signature ELSE old.signature
  /\ o.stat = old.stat
Agree(o, old, new) ==
  \A f \in {"fefek", "fnek", "salt", "signature"} : new[f] = old[f] => o[f] = old[f]

LEMMA OverwrittenFields ==
  ASSUME NEW new, NEW old, NEW n \in 1..5, NEW into \in BOOLEAN,
         NEW o, o = Overwritten(new, old, n, into)
  PROVE  CutFields(o, new, old, n)
<1>1. DOMAIN Field = {"fefek", "fnek", "salt", "signature", "stat"}
  BY DEF Field
<1>2. /\ Field["fefek"] = 1 /\ Field["fnek"] = 2 /\ Field["salt"] = 3
      /\ Field["signature"] = 4 /\ Field["stat"] = 5
  BY DEF Field
<1>3. Scrap.fefek = Junk /\ Scrap.fnek = Junk /\ Scrap.signature = Junk /\ Scrap.salt = NoKey
  BY DEF Scrap, Empty
<1>4. \A f \in DOMAIN Field :
        o[f] = IF Field[f] < n THEN new[f]
               ELSE IF Field[f] > n \/ ~into \/ f = "stat" \/ new[f] = old[f] THEN old[f]
               ELSE Scrap[f]
  BY DEF Overwritten
<1>5. o.fefek # Junk => o.fefek = IF n > 1 THEN new.fefek ELSE old.fefek
  BY <1>1, <1>2, <1>3, <1>4
<1>6. o.fnek # Junk => o.fnek = IF n > 2 THEN new.fnek ELSE old.fnek
  BY <1>1, <1>2, <1>3, <1>4
<1>7. o.salt # NoKey => o.salt = IF n > 3 THEN new.salt ELSE old.salt
  BY <1>1, <1>2, <1>3, <1>4
<1>8. o.signature # Junk => o.signature = IF n > 4 THEN new.signature ELSE old.signature
  BY <1>1, <1>2, <1>3, <1>4
<1>9. o.stat = old.stat
  BY <1>1, <1>2, <1>4
<1> QED BY <1>5, <1>6, <1>7, <1>8, <1>9 DEF CutFields

LEMMA OverwrittenSame ==
  ASSUME NEW new, NEW old, NEW n \in 1..5, NEW into \in BOOLEAN,
         NEW o, o = Overwritten(new, old, n, into)
  PROVE  Agree(o, old, new)
BY DEF Overwritten, Field, Agree

\* So what is left opens as the old or the new one does, or not at all; unless
\* neither opens.
LEMMA TornSeen ==
  ASSUME NEW new, NEW old, Stored(new, protects), Stored(old, protects),
         old.stat \in {"not_started", "completed"}, NoKey \notin made, MadeInv,
         NEW n \in 1..5, NEW into \in BOOLEAN
  PROVE  Seen(Overwritten(new, old, n, into)) \in Abstract!Torn(Seen(old), Seen(new))
<1> DEFINE o == Overwritten(new, old, n, into)
<1>0. o = Overwritten(new, old, n, into)
  OBVIOUS
<1> HIDE DEF o
<1>1. Stored(o, protects)
  BY <1>0, OverwrittenStored
<1>2. CutFields(o, new, old, n) /\ Agree(o, old, new)
  BY <1>0, OverwrittenFields, OverwrittenSame
<1>20. o.stat = old.stat
  BY <1>2 DEF CutFields
<1>3. Abstract!Readable(Seen(old))
  BY SeenStat DEF Abstract!Readable
<1>4. /\ Seen(old) \in Abstract!Torn(Seen(old), Seen(new))
      /\ [Seen(new) EXCEPT !.stat = old.stat] \in Abstract!Torn(Seen(old), Seen(new))
      /\ \/ Seen(new).key = Seen(old).key /\ Seen(new).pass = Seen(old).pass
         \/ Shut(old.stat) \in Abstract!Torn(Seen(old), Seen(new))
  BY <1>3, SeenStat DEF Abstract!Torn, Shut
<1>5. ASSUME \A w \in Passwords : ~Genuine(o, w)
      PROVE  Seen(o) \in Abstract!Torn(Seen(old), Seen(new))
  <2>1. Seen(o) = Shut(old.stat)
    BY <1>1, <1>20, <1>5, SeenShut
  <2>2. CASE Seen(new).key # Seen(old).key \/ Seen(new).pass # Seen(old).pass
    BY <1>4, <2>1, <2>2
  <2>3. CASE \A w \in Passwords : ~Genuine(old, w)
    BY <1>4, <2>1, <2>3, SeenShut
  <2>4. ASSUME Seen(new).key = Seen(old).key, Seen(new).pass = Seen(old).pass,
               NEW w \in Passwords, Genuine(old, w)
        PROVE  FALSE
    <3>1. Seen(old) = [key |-> old.salt, pass |-> w, stat |-> old.stat]
      BY <2>4, SeenGenuine
    <3>2. w # NoPassword
      BY HeaderAssumption
    <3>3. PICK v \in Passwords : Genuine(new, v)
      BY <2>4, <3>1, <3>2, SeenShut DEF Shut
    <3>4. v = w /\ new.salt = old.salt
      BY <2>4, <3>1, <3>3, SeenGenuine
    <3>5. new.fefek = old.fefek /\ new.fnek = old.fnek /\ new.signature = old.signature
      BY <2>4, <3>3, <3>4 DEF Genuine
    <3>6. o.fefek = old.fefek /\ o.fnek = old.fnek /\ o.salt = old.salt /\ o.signature = old.signature
      BY <1>2, <3>4, <3>5 DEF Agree
    <3>7. Genuine(o, w)
      BY <2>4, <3>6 DEF Genuine
    <3> QED BY <1>5, <3>7
  <2> QED BY <2>2, <2>3, <2>4
<1>6. ASSUME NEW w \in Passwords, Genuine(o, w)
      PROVE  Seen(o) \in Abstract!Torn(Seen(old), Seen(new))
  <2> DEFINE m == o.salt
  <2>1. Seen(o) = [key |-> m, pass |-> w, stat |-> old.stat]
    BY <1>1, <1>20, <1>6, SeenGenuine
  <2>2. <<m, w>> \in protects
    BY <1>1, <1>6, OpensGenuine, CheckedIsGenuine
  <2>3. m # NoKey
    BY <2>2 DEF MadeInv
  <2>4. /\ o.fefek = IF n > 1 THEN new.fefek ELSE old.fefek
        /\ o.fnek = IF n > 2 THEN new.fnek ELSE old.fnek
        /\ m = IF n > 3 THEN new.salt ELSE old.salt
        /\ o.signature = IF n > 4 THEN new.signature ELSE old.signature
    BY <1>2, <1>6, <2>3, BufferSealed DEF Genuine, CutFields
  <2>5. CASE n = 1
    <3>1. Genuine(old, w) /\ m = old.salt
      BY <1>6, <2>4, <2>5 DEF Genuine
    <3> QED BY <1>4, <2>1, <3>1, SeenGenuine
  <2>6. CASE n = 5
    <3>1. Genuine(new, w) /\ m = new.salt
      BY <1>6, <2>4, <2>6 DEF Genuine
    <3>2. Seen(new) = [key |-> m, pass |-> w, stat |-> new.stat]
      BY <3>1, SeenGenuine
    <3>3. Seen(o) = [Seen(new) EXCEPT !.stat = old.stat]
      BY <2>1, <3>2
    <3> QED BY <1>4, <3>3
  <2>7. CASE n \in 2..4
    <3>1. /\ Buffer(<<"fefek", m>>, m, w) = new.fefek
          /\ Buffer(Hash(m), m, w) = old.signature
      BY <1>6, <2>4, <2>7 DEF Genuine
    <3>2. ASSUME NEW v \in Passwords, Genuine(old, v)
          PROVE  Seen(o) = Seen(old)
      <4>1. m = old.salt /\ v = w
        BY <3>1, <3>2, BufferSame DEF Genuine
      <4> QED BY <2>1, <3>2, <4>1, SeenGenuine
    <3>3. ASSUME NEW v \in Passwords, Genuine(new, v)
          PROVE  Seen(o) = [Seen(new) EXCEPT !.stat = old.stat]
      <4>1. m = new.salt /\ v = w
        BY <3>1, <3>3, BufferSame DEF Genuine
      <4>2. Seen(new) = [key |-> m, pass |-> w, stat |-> new.stat]
        BY <3>3, <4>1, SeenGenuine
      <4> QED BY <2>1, <4>2
    <3>4. ASSUME \A v \in Passwords : ~Genuine(old, v) /\ ~Genuine(new, v)
          PROVE  Seen(o) \in Abstract!Torn(Seen(old), Seen(new))
      <4>1. Seen(old).pass = NoPassword /\ Seen(new).pass = NoPassword
        BY <3>4, SeenShut DEF Shut
      <4>2. <<m, w>>[1] = m /\ <<m, w>>[2] = w
        OBVIOUS
      <4>3. Seen(o) \in {[key |-> g[1], pass |-> g[2], stat |-> Seen(old).stat] : g \in protects}
        BY <2>1, <2>2, <4>2, SeenStat
      <4> QED BY <1>3, <4>1, <4>3 DEF Abstract!Torn
    <3> QED BY <1>4, <3>2, <3>3, <3>4
  <2> QED BY <2>5, <2>6, <2>7
<1> QED BY <1>0, <1>5, <1>6

-----------------------------------------------------------------------------
(* Every step of CryptoHeader is one of KeyFile, or nothing there.           *)

Written == {"not_started", "completed"}
\* What a process at the step s of the call c holds.
Asks(s, c, h) ==
  /\ s \in {"mkdir", "generate", "status"} => c.op = "create"
  /\ s = "change" => c.op = "change" /\ c.new \in Passwords
  /\ s \in {"rmdir", "unlink"} => c.op = "remove"
  /\ s # "idle" /\ c.op # "remove" => c.pw \in Passwords
  /\ s = "write" => h.stat \in Written
FileInv(f) ==
  /\ f.size \in {"none", "part", "whole"}
  /\ IF f.size = "whole" THEN f.holds.stat \in Written ELSE f.holds = Empty
AskInv ==
  /\ FileInv(file) /\ made \subseteq Keys /\ call = [p \in Procs |-> call[p]]
  /\ \A p \in Procs : Asks(pc[p], call[p], header[p])

\* What p is asked for afterwards: the same, or nothing.
Remains(p) == call' = call \/ call' = [call EXCEPT ![p] = NoCall]
LEMMA RemainsKeeps ==
  ASSUME AskInv, NEW p \in Procs, Remains(p)
  PROVE  Abstract!Keeps(p) /\ call' = [q \in Procs |-> call'[q]]
<1>1. call = [call EXCEPT ![p] = call[p]]
  BY DEF AskInv
<1>2. NoCall = Abstract!NoCall
  BY DEF NoCall, Abstract!NoCall
<1>3. Abstract!Keeps(p)
  BY <1>1, <1>2 DEF Remains, Abstract!Keeps
<1>4. call' = [q \in Procs |-> call'[q]]
  BY DEF Remains, AskInv
<1> QED BY <1>3, <1>4

LEMMA CopyMoves ==
  ASSUME NEW p \in Procs, NEW s, NEW c, NEW h, Moves(p, s, c, h)
  PROVE  SeenCopy' = [SeenCopy EXCEPT ![p] = Seen(IF s = "write" THEN h ELSE Empty)]
<1>1. SeenCopy' = [q \in Procs |-> Seen(IF pc'[q] = "write" THEN header'[q] ELSE Empty)]
  BY DEF SeenCopy
<1> QED BY <1>1 DEF SeenCopy, Moves

LEMMA AskMoves ==
  ASSUME AskInv, NEW p \in Procs, NEW s, NEW c, NEW h, Moves(p, s, c, h), Asks(s, c, h),
         FileInv(file'), made' \subseteq Keys, call' = [q \in Procs |-> call'[q]]
  PROVE  AskInv'
<1>1. \A q \in Procs : Asks(pc'[q], call'[q], header'[q])
  BY DEF AskInv, Moves
<1> QED BY <1>1 DEF AskInv

\* The header of a file that has been written once.
LEMMA SeenWhole == ASSUME NEW h PROVE SeenFile(Whole(h)) = Seen(h)
<1>1. SeenFile(Whole(h)) = [Seen(h) EXCEPT !.stat = Seen(h).stat]
  BY DEF SeenFile, Whole
<1> QED BY <1>1 DEF Seen
LEMMA SeenNone == SeenFile(NoFile) = Abstract!NoHeader
BY EmptySeen DEF SeenFile, NoFile, Abstract!NoHeader
LEMMA SeenPart == SeenFile(Partial) = Abstract!Malformed
BY EmptySeen DEF SeenFile, Partial, Abstract!NoHeader, Abstract!Malformed

Simulated == AskInv' /\ Abstract!Next

\* A step after which p has nothing to write, and the file is as before.
LEMMA QuietSimulates ==
  ASSUME AskInv, NEW p \in Procs, NEW s, NEW c, NEW h, Moves(p, s, c, h),
         s # "write", Asks(s, c, h), UNCHANGED <<file, ghosts>>, Remains(p)
  PROVE  Simulated
<1>1. SeenCopy' = [SeenCopy EXCEPT ![p] = Abstract!NoHeader]
  BY CopyMoves, EmptySeen
<1>2. UNCHANGED <<SeenFile(file), protects>>
  BY DEF ghosts
<1>3. Abstract!Forget(p)
  BY <1>1, <1>2, RemainsKeeps DEF Abstract!Forget
<1>4. FileInv(file') /\ made' \subseteq Keys
  BY DEF AskInv, FileInv, ghosts
<1> QED BY <1>3, <1>4, AskMoves, RemainsKeeps DEF Simulated, Abstract!Next

LEMMA DoneSimulates ==
  ASSUME AskInv, HeaderInv, NEW p \in Procs, Done(p), UNCHANGED <<file, ghosts>>
  PROVE  Simulated
<1>1. Moves(p, "idle", NoCall, Empty)
  BY DoneMoves DEF HeaderInv
<1>2. Asks("idle", NoCall, Empty)
  BY DEF Asks
<1> QED BY <1>1, <1>2, QuietSimulates DEF Remains, Done

LEMMA StartSimulates ==
  ASSUME AskInv, HeaderInv, NEW p \in Procs, NEW c \in Args, Start(p, c)
  PROVE  Simulated
<1>1. Moves(p, FirstStep[c.op], c, header[p])
  BY DEF HeaderInv, Arrays, Start, Moves
<1>2. Asks(FirstStep[c.op], c, header[p]) /\ FirstStep[c.op] # "write"
  BY HeaderAssumption DEF Args, FirstStep, HeaderOps, Asks
<1>3. UNCHANGED <<file, made, protects>>
  BY DEF Start, disk, ghosts
<1>4. SeenCopy[p] = Abstract!NoHeader
  BY EmptySeen DEF SeenCopy, Start
<1>5. SeenCopy' = SeenCopy
  <2>1. SeenCopy' = [SeenCopy EXCEPT ![p] = Abstract!NoHeader]
    BY <1>1, <1>2, CopyMoves, EmptySeen
  <2> QED BY <1>4, <2>1 DEF SeenCopy
<1>6. c \in Abstract!Calls
  BY HeaderAssumption DEF Args, HeaderOps, Abstract!Calls
<1>7. call' = [call EXCEPT ![p] = c]
  BY DEF Start
<1>8. UNCHANGED SeenFile(file)
  BY <1>3
<1>9. Abstract!Ask(p)
  BY <1>3, <1>4, <1>5, <1>6, <1>7, <1>8 DEF Abstract!Ask
<1>10. call' = [q \in Procs |-> call'[q]]
  BY <1>7 DEF AskInv
<1>11. FileInv(file') /\ made' \subseteq Keys
  BY <1>3 DEF AskInv, FileInv
<1> QED BY <1>1, <1>2, <1>9, <1>10, <1>11, AskMoves DEF Simulated, Abstract!Next

LEMMA MakePrivateDirSimulates ==
  ASSUME AskInv, HeaderInv, NEW p \in Procs, MakePrivateDir(p)
  PROVE  Simulated
<1>1. UNCHANGED <<file, ghosts>>
  BY DEF MakePrivateDir
<1>2. CASE Goto(p, "generate")
  <2>1. Moves(p, "generate", call[p], header[p])
    BY <1>2, GotoMoves DEF HeaderInv
  <2>2. Asks("generate", call[p], header[p])
    BY DEF AskInv, Asks, MakePrivateDir
  <2> QED BY <1>1, <1>2, <2>1, <2>2, QuietSimulates DEF Remains, Goto
<1>3. CASE Done(p)
  BY <1>1, <1>3, DoneSimulates
<1> QED BY <1>2, <1>3 DEF MakePrivateDir

LEMMA OpenSimulates ==
  ASSUME AskInv, HeaderInv, NEW p \in Procs, OpenHeader(p) \/ AddKeys(p)
  PROVE  Simulated
<1>1. UNCHANGED <<file, ghosts>>
  BY DEF OpenHeader, AddKeys, disk
<1>2. CASE Done(p)
  BY <1>1, <1>2, DoneSimulates
<1>3. ASSUME NEW h, NEW s, Fill(p, h, s), pc[p] # "idle",
             s = "add_keys" \/ (s = "status" /\ call[p].op = "create")
      PROVE  Simulated
  <2>1. Moves(p, s, call[p], h)
    BY <1>3, FillMoves DEF HeaderInv
  <2>2. Asks(s, call[p], h)
    BY <1>3 DEF AskInv, Asks
  <2> QED BY <1>1, <1>3, <2>1, <2>2, QuietSimulates DEF Remains, Fill
<1>4. CASE OpenHeader(p)
  BY <1>2, <1>3, <1>4 DEF OpenHeader
<1>5. CASE AddKeys(p)
  <2>1. pc[p] # "idle"
    BY <1>5 DEF AddKeys
  <2>2. CASE call[p].op = "create"
    <3>1. Fill(p, Empty, "status")
      BY <1>5, <2>2 DEF AddKeys
    <3> QED BY <1>3, <2>1, <2>2, <3>1
  <2>3. CASE call[p].op # "create"
    BY <1>2, <1>5, <2>3 DEF AddKeys
  <2> QED BY <2>2, <2>3
<1> QED BY <1>4, <1>5

LEMMA RemoveDirSimulates ==
  ASSUME AskInv, HeaderInv, NEW p \in Procs, RemoveDir(p)
  PROVE  Simulated
<1>1. UNCHANGED <<file, ghosts>>
  BY DEF RemoveDir
<1>2. CASE Goto(p, "unlink")
  <2>1. Moves(p, "unlink", call[p], header[p])
    BY <1>2, GotoMoves DEF HeaderInv
  <2>2. Asks("unlink", call[p], header[p])
    BY DEF AskInv, Asks, RemoveDir
  <2> QED BY <1>1, <1>2, <2>1, <2>2, QuietSimulates DEF Remains, Goto
<1>3. CASE Done(p)
  BY <1>1, <1>3, DoneSimulates
<1> QED BY <1>2, <1>3 DEF RemoveDir

LEMMA UnlinkSimulates ==
  ASSUME AskInv, HeaderInv, NEW p \in Procs, UnlinkKeyFile(p)
  PROVE  Simulated
<1>1. Moves(p, "idle", NoCall, Empty)
  BY DoneMoves DEF HeaderInv, UnlinkKeyFile
<1>2. Asks("idle", NoCall, Empty) /\ Remains(p)
  BY DEF Asks, UnlinkKeyFile, Remains, Done
<1>3. UNCHANGED <<made, protects>> /\ file' = NoFile
  BY DEF UnlinkKeyFile, ghosts
<1>4. FileInv(file') /\ SeenFile(file') = Abstract!NoHeader
  BY <1>3, SeenNone DEF FileInv, NoFile
<1>5. UNCHANGED SeenCopy
  <2>1. SeenCopy' = [SeenCopy EXCEPT ![p] = Seen(Empty)]
    BY <1>1, CopyMoves
  <2>2. SeenCopy[p] = Seen(Empty)
    BY DEF SeenCopy, UnlinkKeyFile
  <2> QED BY <2>1, <2>2 DEF SeenCopy
<1>6. call[p].op = "remove"
  BY DEF AskInv, Asks, UnlinkKeyFile
<1>7. Abstract!Unlink(p)
  BY <1>2, <1>3, <1>4, <1>5, <1>6, RemainsKeeps DEF Abstract!Unlink
<1>8. made' \subseteq Keys
  BY <1>3 DEF AskInv
<1> QED BY <1>1, <1>2, <1>4, <1>7, <1>8, AskMoves, RemainsKeeps DEF Simulated, Abstract!Next

\* What encrypt_crypto_header makes of an open header opens with that password.
LEMMA SealedGenuine ==
  ASSUME NEW h, NEW m, NEW w, Opened(h, m)
  PROVE  Genuine(Sealed(h, w), w) /\ Sealed(h, w).salt = m /\ Sealed(h, w).stat = h.stat
<1> DEFINE k == pbkdf2(w, m)
           g == Sealed(h, w)
<1>1. /\ h.fefek = Plain(<<"fefek", m>>) /\ h.fnek = Plain(<<"fnek", m>>)
      /\ h.salt = m /\ h.signature = Plain(Hash(m))
  BY DEF Opened
<1>2. Shaped(h)
  BY <1>1 DEF Opened, Shaped
<1>3. /\ encrypt_buffer(h.fefek, k) = [is |-> <<"fefek", m>>, by |-> <<k>>]
      /\ encrypt_buffer(h.fnek, k) = [is |-> <<"fnek", m>>, by |-> <<k>>]
      /\ encrypt_buffer(h.signature, k) = [is |-> Hash(m), by |-> <<k>>]
  BY <1>1, EncryptOnce
<1>4. g = [h EXCEPT !.fefek = encrypt_buffer(h.fefek, k), !.fnek = encrypt_buffer(h.fnek, k),
                    !.signature = encrypt_buffer(h.signature, k)]
  BY <1>1 DEF Sealed, encrypt_crypto_header
<1>5. g = [fefek |-> encrypt_buffer(h.fefek, k), fnek |-> encrypt_buffer(h.fnek, k),
           salt |-> h.salt, signature |-> encrypt_buffer(h.signature, k), stat |-> h.stat]
  <2> HIDE DEF k, g
  <2> QED BY <1>2, <1>4, ThreeFields
<1> QED BY <1>1, <1>3, <1>5 DEF Genuine, Buffer

\* Steps that fill a header to be written.
LEMMA WriteMoves ==
  ASSUME AskInv, HeaderInv, NEW p \in Procs, NEW h, Fill(p, h, "write"),
         h.stat \in Written, pc[p] # "idle", call[p].op # "remove",
         UNCHANGED file, made' \subseteq Keys
  PROVE  /\ AskInv' /\ UNCHANGED <<SeenFile(file), call>>
         /\ SeenCopy' = [SeenCopy EXCEPT ![p] = Seen(h)]
<1>1. Moves(p, "write", call[p], h)
  BY FillMoves DEF HeaderInv
<1>2. Asks("write", call[p], h)
  BY DEF AskInv, Asks
<1>3. UNCHANGED call
  BY DEF Fill
<1>4. FileInv(file') /\ call' = [q \in Procs |-> call'[q]]
  BY <1>3 DEF AskInv
<1> QED BY <1>1, <1>2, <1>3, <1>4, AskMoves, CopyMoves

LEMMA GenerateSimulates ==
  ASSUME AskInv, HeaderInv, NEW p \in Procs, Generate(p)
  PROVE  Simulated
<1> DEFINE w == call[p].pw
<1>1. PICK m \in Keys \ made :
        /\ Fill(p, Sealed(Fresh(m), w), "write")
        /\ made' = made \cup {m} /\ protects' = protects \cup {<<m, w>>}
  BY DEF Generate
<1>2. call[p].op = "create" /\ w \in Passwords
  BY DEF AskInv, Asks, Generate
<1>3. Opened(Fresh(m), m) /\ Fresh(m).stat = "not_started"
  BY DEF Opened, Fresh, Hash, Digest
<1> DEFINE h == Sealed(Fresh(m), w)
<1>4. Stored(h, protects') /\ Genuine(h, w) /\ h.salt = m /\ h.stat = "not_started"
  <2>1. Stored(h, protects')
    BY <1>1, <1>3, SealedStored
  <2> QED BY <1>3, <2>1, SealedGenuine
<1> HIDE DEF h
<1>5. Seen(h) = [key |-> m, pass |-> w, stat |-> "not_started"]
  BY <1>2, <1>4, SeenGenuine
<1>6. h.stat \in Written /\ pc[p] # "idle" /\ made' \subseteq Keys /\ UNCHANGED file
  BY <1>1, <1>4 DEF Written, Generate, AskInv, disk
<1>7. /\ AskInv' /\ UNCHANGED <<SeenFile(file), call>>
      /\ SeenCopy' = [SeenCopy EXCEPT ![p] = Seen(h)]
  BY <1>1, <1>2, <1>6, WriteMoves DEF h
<1>8. Abstract!Generate(p)
  BY <1>1, <1>2, <1>5, <1>7 DEF Abstract!Generate, Abstract!Take, Abstract!Gives
<1> QED BY <1>7, <1>8 DEF Simulated, Abstract!Next

\* A key file that can be read.
LEMMA ReadableSeen ==
  ASSUME AskInv, HeaderInv, NEW p \in Procs, Reads(p)
  PROVE  /\ SeenFile(file) = Seen(file.holds) /\ Stored(file.holds, protects)
         /\ file.holds.stat \in Written /\ Abstract!Readable(SeenFile(file))
<1>1. SeenFile(file) = [Seen(file.holds) EXCEPT !.stat = Seen(file.holds).stat]
  BY DEF SeenFile, Reads
<1>2. SeenFile(file) = Seen(file.holds)
  BY <1>1 DEF Seen
<1>3. file.holds.stat \in Written
  BY DEF AskInv, FileInv, Reads
<1> QED BY <1>2, <1>3, SeenStat DEF HeaderInv, Abstract!Readable, Written

LEMMA ReadForStatusSimulates ==
  ASSUME AskInv, HeaderInv, NEW p \in Procs, ReadForStatus(p)
  PROVE  Simulated
<1> DEFINE old == file.holds
           h == [old EXCEPT !.stat = "completed"]
<1>1. /\ SeenFile(file) = Seen(old) /\ Stored(old, protects)
      /\ Abstract!Readable(SeenFile(file))
  BY ReadableSeen DEF ReadForStatus
<1>2. /\ h.fefek = old.fefek /\ h.fnek = old.fnek /\ h.salt = old.salt
      /\ h.signature = old.signature /\ h.stat = "completed"
  BY <1>1 DEF Stored, Shaped
<1>3. Stored(h, protects)
  BY <1>1, StatusStored
<1>4. call[p].op = "create"
  BY DEF AskInv, Asks, ReadForStatus
<1>5. Fill(p, h, "write") /\ UNCHANGED <<file, made, protects>> /\ pc[p] # "idle"
  BY DEF ReadForStatus, disk, ghosts
<1> HIDE DEF h
<1>6. Seen(h) = [Seen(old) EXCEPT !.stat = "completed"]
  <2>1. \A w : Genuine(h, w) <=> Genuine(old, w)
    BY <1>2 DEF Genuine
  <2>2. CASE \A w \in Passwords : ~Genuine(old, w)
    BY <1>1, <1>2, <1>3, <2>1, <2>2, SeenShut DEF Shut
  <2>3. ASSUME NEW w \in Passwords, Genuine(old, w)
        PROVE  Seen(h) = [Seen(old) EXCEPT !.stat = "completed"]
    <3>1. Seen(h) = [key |-> old.salt, pass |-> w, stat |-> "completed"]
      BY <1>2, <1>3, <2>1, <2>3, SeenGenuine
    <3>2. Seen(old) = [key |-> old.salt, pass |-> w, stat |-> old.stat]
      BY <1>1, <2>3, SeenGenuine
    <3> QED BY <3>1, <3>2
  <2> QED BY <2>2, <2>3
<1>7. /\ AskInv' /\ UNCHANGED <<SeenFile(file), call>>
      /\ SeenCopy' = [SeenCopy EXCEPT ![p] = Seen(h)]
  <2>1. h.stat \in Written /\ made' \subseteq Keys
    BY <1>2, <1>5 DEF Written, AskInv
  <2> QED BY <1>4, <1>5, <2>1, WriteMoves
<1>8. Abstract!ReadForStatus(p)
  BY <1>1, <1>4, <1>5, <1>6, <1>7 DEF Abstract!ReadForStatus, Abstract!Take
<1> QED BY <1>7, <1>8 DEF Simulated, Abstract!Next

LEMMA ReadForChangeSimulates ==
  ASSUME AskInv, HeaderInv, NEW p \in Procs, ReadForChange(p)
  PROVE  Simulated
<1> DEFINE old == file.holds
           w == call[p].pw
           x == call[p].new
           h == Sealed(Decrypted(old, w), x)
<1>1. /\ SeenFile(file) = Seen(old) /\ Stored(old, protects) /\ old.stat \in Written
      /\ Abstract!Readable(SeenFile(file))
  BY ReadableSeen DEF ReadForChange
<1>2. /\ call[p].op = "change" /\ w \in Passwords /\ x \in Passwords
      /\ pc[p] # "idle" /\ UNCHANGED <<file, made>>
  BY DEF AskInv, Asks, ReadForChange, disk
<1>3. CASE check_passwd(old, w) /\ Fill(p, h, "write")
             /\ protects' = protects \cup {<<old.salt, x>>}
  <2>1. Genuine(old, w) /\ Opened(Decrypted(old, w), old.salt)
    BY <1>1, <1>3, OpensGenuine, CheckedIsGenuine
  <2>2. Decrypted(old, w).stat = old.stat
    BY <1>1 DEF Decrypted, decrypt_crypto_header, Stored, Shaped
  <2>3. Genuine(h, x) /\ h.salt = old.salt /\ h.stat = old.stat /\ Stored(h, protects')
    <3>1. Stored(h, protects')
      BY <1>3, <2>1, SealedStored
    <3> QED BY <2>1, <2>2, <3>1, SealedGenuine
  <2> HIDE DEF h
  <2>4. Seen(h) = [key |-> old.salt, pass |-> x, stat |-> old.stat]
    BY <1>2, <2>3, SeenGenuine
  <2>5. Seen(old) = [key |-> old.salt, pass |-> w, stat |-> old.stat]
    BY <1>1, <1>2, <2>1, SeenGenuine
  <2>6. /\ AskInv' /\ UNCHANGED <<SeenFile(file), call>>
        /\ SeenCopy' = [SeenCopy EXCEPT ![p] = Seen(h)]
    <3>1. h.stat \in Written /\ made' \subseteq Keys
      BY <1>1, <1>2, <2>3 DEF AskInv
    <3> QED BY <1>2, <1>3, <3>1, WriteMoves
  <2>7. Seen(h) = [Seen(old) EXCEPT !.pass = x]
    BY <2>4, <2>5
  <2>8. Abstract!ReadForChange(p)
    BY <1>1, <1>2, <1>3, <2>5, <2>6, <2>7
       DEF Abstract!ReadForChange, Abstract!Take, Abstract!Gives
  <2> QED BY <2>6, <2>8 DEF Simulated, Abstract!Next
<1>4. CASE Done(p) /\ UNCHANGED protects
  BY <1>2, <1>4, DoneSimulates DEF ghosts
<1> QED BY <1>3, <1>4 DEF ReadForChange

LEMMA WriteHeaderSimulates ==
  ASSUME AskInv, HeaderInv, NEW p \in Procs, WriteHeader(p)
  PROVE  Simulated
<1> DEFINE new == header[p]
           old == file.holds
<1>1. /\ new.stat \in Written /\ Stored(new, protects) /\ Stored(old, protects)
      /\ pc[p] = "write" /\ UNCHANGED <<made, protects>>
  BY DEF AskInv, Asks, WriteHeader, HeaderInv, WriteInv, ghosts
<1>2. SeenCopy[p] = Seen(new) /\ SeenCopy[p] # Abstract!NoHeader
  <2>1. SeenCopy[p] = Seen(new)
    BY <1>1 DEF SeenCopy
  <2> QED BY <1>1, <2>1, SeenStat DEF Written, Abstract!NoHeader
<1>3. /\ Remains(p) /\ SeenCopy' = [SeenCopy EXCEPT ![p] = Abstract!NoHeader]
      /\ FileInv(file') => AskInv'
  <2>1. PICK s, c : /\ Moves(p, s, c, Empty) /\ s # "write" /\ Asks(s, c, Empty) /\ Remains(p)
    <3>1. CASE Done(p)
      BY <3>1, DoneMoves DEF HeaderInv, Asks, Remains, Done
    <3>2. CASE Fill(p, Empty, "mount")
      <4>1. Asks("mount", call[p], Empty)
        BY <1>1 DEF AskInv, Asks
      <4> QED BY <3>2, <4>1, FillMoves DEF HeaderInv, Remains, Fill
    <3> QED BY <3>1, <3>2 DEF WriteHeader
  <2>2. made' \subseteq Keys
    BY <1>1 DEF AskInv
  <2> QED BY <2>1, <2>2, CopyMoves, EmptySeen, AskMoves, RemainsKeeps
<1>4. FileInv(file') /\ SeenFile(file') \in {SeenCopy[p]} \cup Abstract!Torn(SeenFile(file), SeenCopy[p])
  <2>1. CASE file' = Whole(new)
    BY <1>1, <1>2, <2>1, SeenWhole DEF FileInv, Whole
  <2>2. CASE file' \in CutOff(new) /\ file.size = "whole"
    <3>1. PICK n \in 1..5, into \in BOOLEAN : file' = Whole(Overwritten(new, old, n, into))
      BY <2>2 DEF CutOff
    <3>2. SeenFile(file) = Seen(old) /\ old.stat \in Written
      BY <2>2, ReadableSeen DEF Reads
    <3>3. NoKey \notin made /\ MadeInv
      BY HeaderAssumption DEF AskInv, HeaderInv
    <3>4. Seen(Overwritten(new, old, n, into)) \in Abstract!Torn(Seen(old), Seen(new))
      BY <1>1, <3>2, <3>3, TornSeen DEF Written
    <3>5. CutFields(Overwritten(new, old, n, into), new, old, n)
      BY OverwrittenFields
    <3>6. Overwritten(new, old, n, into).stat = old.stat
      BY <3>5 DEF CutFields
    <3> QED BY <1>2, <3>1, <3>2, <3>4, <3>6, SeenWhole DEF FileInv, Whole
  <2>3. CASE file' \in CutOff(new) /\ file.size # "whole"
    <3>1. file' = Partial
      BY <2>3 DEF CutOff
    <3>2. SeenFile(file).stat \in {"absent", "malformed"}
      BY <2>3 DEF AskInv, FileInv, SeenFile, Seen
    <3>3. Abstract!Malformed \in Abstract!Torn(SeenFile(file), SeenCopy[p])
      BY <3>2 DEF Abstract!Torn, Abstract!Readable
    <3> QED BY <3>1, <3>3, SeenPart DEF FileInv, Partial
  <2> QED BY <2>1, <2>2, <2>3 DEF WriteHeader
<1>5. Abstract!WriteBack(p)
  BY <1>1, <1>2, <1>3, <1>4, RemainsKeeps DEF Abstract!WriteBack
<1> QED BY <1>3, <1>4, <1>5 DEF Simulated, Abstract!Next

\* Every step, and the first state.
LEMMA StepSimulates ==
  ASSUME AskInv, HeaderInv, [Next]_vars
  PROVE  AskInv' /\ [Abstract!Next]_<<SeenFile(file), SeenCopy, call, protects>>
<1>1. CASE UNCHANGED vars
  BY <1>1 DEF vars, disk, procs, ghosts, AskInv, FileInv, SeenFile, SeenCopy
<1>2. ASSUME NEW p \in Procs, NEW c \in Args, Start(p, c) PROVE Simulated
  BY <1>2, StartSimulates
<1>3. ASSUME NEW p \in Procs,
             \/ MakePrivateDir(p) \/ Generate(p) \/ ReadForStatus(p)
             \/ ReadForChange(p) \/ WriteHeader(p) \/ OpenHeader(p) \/ AddKeys(p)
             \/ RemoveDir(p) \/ UnlinkKeyFile(p)
      PROVE  Simulated
  BY <1>3, MakePrivateDirSimulates, GenerateSimulates, ReadForStatusSimulates,
     ReadForChangeSimulates, WriteHeaderSimulates, OpenSimulates, RemoveDirSimulates,
     UnlinkSimulates
<1>4. ASSUME NEW p \in Procs, ReadFails(p) \/ Abort(p) PROVE Simulated
  BY <1>4, DoneSimulates DEF ReadFails, Abort, disk
<1> QED BY <1>1, <1>2, <1>3, <1>4 DEF Next, Simulated

LEMMA InitSimulates ==
  ASSUME Init PROVE AskInv /\ Abstract!Init
<1>1. SeenFile(file) = Abstract!NoHeader
  BY SeenNone DEF Init
<1>2. SeenCopy = [p \in Procs |-> Abstract!NoHeader]
  BY EmptySeen DEF Init, SeenCopy
<1>3. AskInv
  BY DEF Init, AskInv, FileInv, NoFile, Asks, NoCall
<1>4. NoCall = Abstract!NoCall
  BY DEF NoCall, Abstract!NoCall
<1> QED BY <1>1, <1>2, <1>3, <1>4 DEF Init, Abstract!Init

\* crypto.c implements the key file the rest of the library relies on: a step is
\* one of KeyFile, or none, for any processes, passwords and material and however
\* many writes are cut off.
THEOREM KeyFileImplemented == Spec => ImplementsKeyFile
<1>1. Init => HeaderInv /\ AskInv /\ Abstract!Init
  BY InitKeeps, InitSimulates
<1>2. HeaderInv /\ AskInv /\ [Next]_vars =>
        /\ HeaderInv' /\ AskInv'
        /\ [Abstract!Next]_<<SeenFile(file), SeenCopy, call, protects>>
  BY StepKeeps, StepSimulates
<1> QED BY <1>1, <1>2, PTL DEF Spec, ImplementsKeyFile, Abstract!Spec

=============================================================================
