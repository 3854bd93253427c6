----------------------------- MODULE CryptoHeader -----------------------------
(* crypto.c: the header in the key file field by field, with the cryptography *)
(* symbolic (a buffer opens with the key it was sealed with and with no       *)
(* other), and the file written in place: a write that is cut off leaves the  *)
(* beginning of the new header before the end of the old one.  The sixth      *)
(* field, username, is the same in every header of a storage and left out.    *)
EXTENDS Naturals, Sequences, FiniteSets

CONSTANTS
  Procs,            \* processes that call the library
  Passwords,        \* passwords a caller may pass
  Keys,             \* what /dev/urandom yields, each once: the two keys and a salt
  NoKey, NoPassword, \* no such thing
  Ops,              \* the calls made in this instance
  MaxCuts           \* bound: writes cut off, failed calls and deaths

HeaderOps == {"create", "change", "mount", "remove"}
ASSUME HeaderAssumption ==
  /\ NoKey \notin Keys /\ NoPassword \notin Passwords
  /\ Ops \subseteq HeaderOps /\ MaxCuts \in Nat

VARIABLES
  file,     \* the key file: how much of it there is, and the header in it
  privDir,  \* does the private directory exist?
  pc,       \* pc[p]: the step p is about to take
  call,     \* call[p]: the call p is in
  header,   \* header[p]: its struct crypto_header
  made,     \* ghost: the material generated so far
  protects, \* ghost: <<material, password>> pairs headers were sealed with
  cuts      \* what has gone wrong so far

disk   == <<file, privDir>>
procs  == <<pc, call, header>>
ghosts == <<made, protects>>
vars   == <<disk, procs, ghosts, cuts>>

-----------------------------------------------------------------------------
(* The header and its cryptography.                                          *)

\* A buffer: its content, and the keys it is sealed with, the last one on top.
Plain(v) == [is |-> v, by |-> <<>>]
Junk     == [is |-> <<"junk">>, by |-> <<>>]

\* Key and IV from the password and the salt.
pbkdf2(pw, salt) == <<pw, salt>>

encrypt_buffer(b, k) == [b EXCEPT !.by = Append(@, k)]
decrypt_buffer(b, k) ==
  IF b.by # <<>> /\ b.by[Len(b.by)] = k
  THEN [b EXCEPT !.by = SubSeq(@, 1, Len(@) - 1)] ELSE Junk

Digest(h) == <<"hash", h.fefek, h.fnek, h.salt>>

\* The material m, signed and not yet sealed.
Fresh(m) ==
  LET keys == [fefek |-> Plain(<<"fefek", m>>), fnek |-> Plain(<<"fnek", m>>), salt |-> m]
  IN [fefek |-> keys.fefek, fnek |-> keys.fnek, salt |-> keys.salt,
      signature |-> Plain(Digest(keys)), stat |-> "not_started"]

\* Mutant: the signature is stored as it is.
encrypt_crypto_header_Unsigned(h, k) ==
  [h EXCEPT !.fefek = encrypt_buffer(@, k), !.fnek = encrypt_buffer(@, k)]
encrypt_crypto_header(h, k) ==
  [h EXCEPT !.fefek = encrypt_buffer(@, k), !.fnek = encrypt_buffer(@, k),
            !.signature = encrypt_buffer(@, k)]
decrypt_crypto_header(h, k) ==
  [h EXCEPT !.fefek = decrypt_buffer(@, k), !.fnek = decrypt_buffer(@, k),
            !.signature = decrypt_buffer(@, k)]

\* check_passwd decrypts in place; what it decrypted to is signed, or not.
Decrypted(h, pw) == decrypt_crypto_header(h, pbkdf2(pw, h.salt))
\* Mutant: the digest is not compared.
check_passwd_Decrypts(h, pw) == h.stat # "absent"
check_passwd(h, pw) == Decrypted(h, pw).signature = Plain(Digest(Decrypted(h, pw)))

Sealed(h, pw) == encrypt_crypto_header(h, pbkdf2(pw, h.salt))

-----------------------------------------------------------------------------
(* The key file.                                                             *)

Empty == [fefek |-> Junk, fnek |-> Junk, salt |-> NoKey, signature |-> Junk,
          stat |-> "absent"]
NoFile   == [size |-> "none",  holds |-> Empty]
Partial  == [size |-> "part",  holds |-> Empty]
Whole(h) == [size |-> "whole", holds |-> h]

\* The place of a field in the struct.
Field == [fefek |-> 1, fnek |-> 2, salt |-> 3, signature |-> 4, stat |-> 5]
Scrap == [Empty EXCEPT !.stat = "not_started"]

\* The first bytes of new over old, up to the field n, or into it: bytes of
\* both make up a third value, unless they are equal.  Of the status, a small
\* integer, one byte tells.
Overwritten(new, old, n, into) ==
  [f \in DOMAIN Field |->
     IF Field[f] < n THEN new[f]
     ELSE IF Field[f] > n \/ ~into \/ f = "stat" \/ new[f] = old[f] THEN old[f]
     ELSE Scrap[f]]

\* What write_crypto_header may leave when it does not get to its end.
CutOff(h) ==
  IF file.size = "whole"
  THEN {Whole(Overwritten(h, file.holds, n, into)) : n \in 1..5, into \in BOOLEAN}
  ELSE {Partial}

-----------------------------------------------------------------------------
(* The calls.                                                                *)

Args == [op: Ops \cap {"remove"}, pw: {NoPassword}, new: {NoPassword}]
          \cup [op: Ops \cap {"create", "mount"}, pw: Passwords, new: {NoPassword}]
          \cup [op: Ops \cap {"change"}, pw: Passwords, new: Passwords]
NoCall  == [op |-> "none", pw |-> NoPassword, new |-> NoPassword]

Init ==
  /\ file = NoFile /\ privDir = FALSE
  /\ pc = [p \in Procs |-> "idle"] /\ call = [p \in Procs |-> NoCall]
  /\ header = [p \in Procs |-> Empty]
  /\ made = {} /\ protects = {} /\ cuts = 0

FirstStep == [create |-> "mkdir", change |-> "change", mount |-> "mount", remove |-> "rmdir"]

Goto(p, step) == pc' = [pc EXCEPT ![p] = step] /\ UNCHANGED <<call, header>>
Fill(p, h, step) == /\ pc' = [pc EXCEPT ![p] = step] /\ UNCHANGED call
                    /\ header' = [header EXCEPT ![p] = h]
\* The local header goes with the call.
Done(p) == /\ pc' = [pc EXCEPT ![p] = "idle"] /\ call' = [call EXCEPT ![p] = NoCall]
           /\ header' = [header EXCEPT ![p] = Empty]
Cut     == cuts < MaxCuts /\ cuts' = cuts + 1

\* Bound: a creation starts while material is left for it.
MaterialLeft ==
  Cardinality(Keys \ made) > Cardinality({q \in Procs : pc[q] \in {"mkdir", "generate"}})

Start(p, c) ==
  /\ c.op = "create" => MaterialLeft
  /\ pc[p] = "idle" /\ pc' = [pc EXCEPT ![p] = FirstStep[c.op]]
  /\ call' = [call EXCEPT ![p] = c]
  /\ UNCHANGED <<disk, header, ghosts, cuts>>

\* mkdir of the private directory keeps a second creation out.
MakePrivateDir(p) ==
  /\ pc[p] = "mkdir"
  /\ \/ ~privDir /\ Goto(p, "generate")
     \/ privDir /\ Done(p)
  /\ privDir' = TRUE
  /\ UNCHANGED <<file, ghosts, cuts>>

\* generate_crypto_header, and the sealing.
Generate(p) ==
  /\ pc[p] = "generate"
  /\ \E m \in Keys \ made :
       /\ Fill(p, Sealed(Fresh(m), call[p].pw), "write")
       /\ made' = made \cup {m} /\ protects' = protects \cup {<<m, call[p].pw>>}
  /\ UNCHANGED <<disk, cuts>>

\* read_crypto_header: a file that is not there, or too short, is an error.
Reads(p) == file.size = "whole"
ReadFails(p) ==
  /\ pc[p] \in {"change", "mount", "status"} /\ file.size # "whole" /\ Done(p)
  /\ UNCHANGED <<disk, ghosts, cuts>>

\* EFS_set_status, at the end of a creation.
ReadForStatus(p) ==
  /\ pc[p] = "status" /\ Reads(p)
  /\ Fill(p, [file.holds EXCEPT !.stat = "completed"], "write")
  /\ UNCHANGED <<disk, ghosts, cuts>>

\* change_passwd seals what check_passwd has opened, with the same salt.
\* Mutant: the opened header is written.
ReadForChange_Open(p) ==
  /\ pc[p] = "change" /\ Reads(p)
  /\ check_passwd(file.holds, call[p].pw)
  /\ Fill(p, Decrypted(file.holds, call[p].pw), "write")
  /\ UNCHANGED <<disk, ghosts, cuts>>
ReadForChange(p) ==
  /\ pc[p] = "change" /\ Reads(p)
  /\ \/ /\ check_passwd(file.holds, call[p].pw)
        /\ Fill(p, Sealed(Decrypted(file.holds, call[p].pw), call[p].new), "write")
        /\ protects' = protects \cup {<<file.holds.salt, call[p].new>>}
     \/ /\ ~check_passwd(file.holds, call[p].pw) /\ Done(p) /\ UNCHANGED protects
  /\ UNCHANGED <<disk, made, cuts>>

\* write_crypto_header.  A creation goes on to mount what it has written.
WriteHeader(p) ==
  /\ pc[p] = "write"
  /\ \/ /\ file' = Whole(header[p]) /\ UNCHANGED cuts
        /\ IF header[p].stat = "not_started" /\ call[p].op = "create"
           THEN Fill(p, Empty, "mount") ELSE Done(p)
     \/ /\ Cut /\ file' \in CutOff(header[p]) /\ Done(p)
  /\ UNCHANGED <<privDir, ghosts>>

\* mount_ecryptfs, of EFS_create, EFS_unlock or a recovery: the password is
\* checked, and the opened header is what the next steps take the keys from.
OpenHeader(p) ==
  /\ pc[p] = "mount" /\ Reads(p)
  /\ \/ /\ check_passwd(file.holds, call[p].pw)
        /\ Fill(p, Decrypted(file.holds, call[p].pw), "add_keys")
     \/ ~check_passwd(file.holds, call[p].pw) /\ Done(p)
  /\ UNCHANGED <<disk, ghosts, cuts>>
\* The two keys go to the kernel.  A creation goes on to its status.
AddKeys(p) ==
  /\ pc[p] = "add_keys"
  /\ IF call[p].op = "create" THEN Fill(p, Empty, "status") ELSE Done(p)
  /\ UNCHANGED <<disk, ghosts, cuts>>

\* EFS_remove: the private directory goes, then the key file.
RemoveDir(p) ==
  /\ pc[p] = "rmdir"
  /\ IF privDir THEN Goto(p, "unlink") ELSE Done(p)
  /\ privDir' = FALSE
  /\ UNCHANGED <<file, ghosts, cuts>>
UnlinkKeyFile(p) ==
  /\ pc[p] = "unlink" /\ file' = NoFile /\ Done(p)
  /\ UNCHANGED <<privDir, ghosts, cuts>>

\* The call fails before its next step, or its process dies there.
Abort(p) ==
  /\ pc[p] # "idle" /\ Cut /\ Done(p)
  /\ UNCHANGED <<disk, ghosts>>

Next == \E p \in Procs :
  \/ \E c \in Args : Start(p, c)
  \/ MakePrivateDir(p) \/ Generate(p) \/ ReadFails(p) \/ ReadForStatus(p)
  \/ ReadForChange(p) \/ WriteHeader(p) \/ OpenHeader(p) \/ AddKeys(p)
  \/ RemoveDir(p) \/ UnlinkKeyFile(p) \/ Abort(p)

Spec == Init /\ [][Next]_vars

-----------------------------------------------------------------------------
(* Properties.                                                               *)

\* The keys of a header are sealed, once, or overwritten by half a write.
KeysHidden(h) == \A b \in {h.fefek, h.fnek} : b = Junk \/ Len(b.by) = 1

\* No master key is ever written to the key file in the clear, nor waits in the
\* header a process is about to write, whatever the calls of other processes
\* and cut-off writes have left in the file before.
NoKeyInClear ==
  /\ KeysHidden(file.holds)
  /\ \A p \in Procs : pc[p] = "write" => KeysHidden(header[p])

\* What reaches the kernel are two keys that were generated together, for a
\* header sealed with the password given: a header put together from halves
\* of two others never passes check_passwd.
MountedGenuine ==
  \A p \in Procs : pc[p] = "add_keys" =>
    \E m \in made : /\ header[p].fefek = Plain(<<"fefek", m>>)
                    /\ header[p].fnek = Plain(<<"fnek", m>>)
                    /\ <<m, call[p].pw>> \in protects

\* The header as the rest of the library sees it.
Opener(h) == {w \in Passwords : check_passwd(h, w)}
Seen(h) ==
  IF Opener(h) = {} THEN [key |-> NoKey, pass |-> NoPassword, stat |-> h.stat]
  ELSE [key |-> h.salt, pass |-> CHOOSE w \in Opener(h) : TRUE, stat |-> h.stat]
SeenFile(f) ==
  [Seen(f.holds) EXCEPT !.stat = CASE f.size = "none"  -> "absent"
                                   [] f.size = "part"  -> "malformed"
                                   [] f.size = "whole" -> @]

\* What a process is about to write.
SeenCopy == [p \in Procs |-> Seen(IF pc[p] = "write" THEN header[p] ELSE Empty)]

Abstract == INSTANCE KeyFile WITH hdr <- SeenFile(file), copy <- SeenCopy, given <- protects

\* crypto.c is a key file that opens with exactly one password, the one it was
\* made for or changed to; a status write keeps it so however it is cut off,
\* and a cut-off change of password leaves the old one, the new one or none;
\* only halves that two cuts have left apart may come together again.
ImplementsKeyFile == Abstract!Spec

=============================================================================
