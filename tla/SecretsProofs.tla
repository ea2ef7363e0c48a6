--------------------------- MODULE SecretsProofs ---------------------------
(* Theorems about Secrets, for any number of processes, places of secrets  *)
(* and passphrases: ciphertext stays next to its salt, the salt stays, and *)
(* with a manager only what looks like ciphertext is left in the clear.    *)
EXTENDS Secrets, TLAPS

(* Ciphertext is always next to its salt: in the file, in memory and in    *)
(* what is being written.                                                  *)
Fits(cells, salt) == \A c \in Present(cells) : cells[c].salt \in {None, salt}

OperationFits(o) ==
  /\ o.pc \in {"loaded", "writing"} => Fits(o.cells, o.salt)
  /\ o.pc = "loaded" /\ o.manager # None => Fits(o.cells, None)
  /\ o.pc = "loaded" /\ o.held # None => o.held = SaltToSave(o)
  /\ o.pc = "writing" /\ o.held # None => o.held = o.salt

SInv ==
  /\ TypeOK
  /\ Fits(file.cells, file.salt)
  /\ \A p \in Process : OperationFits(proc[p])

LEMMA NoneApart == None \notin Salt /\ None \notin Passphrase /\ None \notin Content
  BY SecretsAssumption

LEMMA NoCellsFit ==
  /\ NoCells \in Cells
  /\ Present(NoCells) = {}
  BY DEF NoCells, Cells, Present

LEMMA RestingFits == Resting \in Operation /\ OperationFits(Resting)
  BY NoCellsFit DEF Resting, Operation, OperationFits, Fits

LEMMA PlainType == \A v \in Value : Plain(v) \in Content /\ Plain(v).salt = None
  BY DEF Plain, Content

(* Decrypting what can be decrypted leaves no ciphertext behind.           *)
LEMMA DecryptedFits ==
  ASSUME NEW m \in Salt \cup {None}, NEW cells \in Cells, NEW salt,
         Fits(cells, salt), CanDecrypt(m, cells)
  PROVE  /\ Decrypted(m, cells) \in Cells
         /\ Fits(Decrypted(m, cells), salt)
         /\ m # None => Fits(Decrypted(m, cells), None)
  <1>1. \A c \in Cell : cells[c] # None => cells[c] \in Content
    BY DEF Cells
  <1>2. \A c \in Cell : cells[c] # None => cells[c].value \in Value
    BY <1>1 DEF Content
  <1>3. \A c \in Cell : Decrypted(m, cells)[c] \in Content \cup {None}
    BY <1>1, <1>2, PlainType DEF Decrypted
  <1>4. Decrypted(m, cells) \in Cells
    BY <1>3 DEF Decrypted, Cells
  <1>5. \A c \in Cell : Decrypted(m, cells)[c] # None =>
          /\ cells[c] # None
          /\ Decrypted(m, cells)[c].salt = (IF m = None THEN cells[c].salt ELSE None)
    BY <1>2, PlainType DEF Decrypted
  <1> QED
    BY <1>4, <1>5 DEF Fits, Present

(* What is sealed under m fits m; without a manager nothing changes.       *)
LEMMA SealedFits ==
  ASSUME NEW m \in Salt \cup {None}, NEW salt \in Salt \cup {None},
         NEW cells \in Cells, Fits(cells, salt),
         m # None => Fits(cells, None)
  PROVE  LET sealed == [c \in Cell |-> Sealed(m, c, cells[c])] IN
         /\ sealed \in Cells
         /\ Fits(sealed, IF m # None THEN m ELSE salt)
  <1> DEFINE sealed == [c \in Cell |-> Sealed(m, c, cells[c])]
  <1>1. \A c \in Cell : cells[c] # None => cells[c] \in Content
    BY DEF Cells
  <1>2. ASSUME NEW c \in Cell
        PROVE  /\ sealed[c] \in Content \cup {None}
               /\ sealed[c] # None =>
                    sealed[c].salt \in {None, IF m # None THEN m ELSE salt}
    <2>1. CASE m = None \/ cells[c] = None
      BY <1>1, <2>1 DEF Sealed, Fits, Present
    <2>2. CASE m # None /\ cells[c] # None
      BY <1>1, <2>2 DEF Sealed, Content, Fits, Present
    <2> QED BY <2>1, <2>2
  <1>3. sealed \in Cells
    BY <1>2 DEF Cells
  <1> HIDE DEF sealed
  <1>4. Fits(sealed, IF m # None THEN m ELSE salt)
    BY <1>2 DEF Fits, Present
  <1> QED BY <1>3, <1>4 DEF sealed

LEMMA InitSInv == Init => SInv
  <1> SUFFICES ASSUME Init PROVE SInv OBVIOUS
  <1>1. TypeOK
    BY SecretsAssumption, RestingFits, NoCellsFit
       DEF Init, TypeOK, NoFile
  <1>2. Fits(file.cells, file.salt)
    BY NoCellsFit DEF Init, NoFile, Fits
  <1>3. \A p \in Process : OperationFits(proc[p])
    BY RestingFits DEF Init
  <1> QED BY <1>1, <1>2, <1>3 DEF SInv

(* An operation ends or changes by itself; the others stay as they were.   *)
LEMMA OneOperation ==
  ASSUME SInv, NEW p \in Process, NEW o \in Operation, OperationFits(o),
         proc' = [proc EXCEPT ![p] = o]
  PROVE  /\ proc' \in [Process -> Operation]
         /\ \A q \in Process : OperationFits(proc'[q])
  BY DEF SInv, TypeOK

LEMMA OpenSInv ==
  ASSUME SInv, NEW p \in Process, NEW pass \in Passphrase \cup {None},
         NEW s \in Salt, Open(p, pass, s)
  PROVE  SInv'
  <1> DEFINE Begun(m) == [Resting EXCEPT !.pc = "opened", !.manager = m]
  <1>1. \A m \in Salt \cup {None} : Begun(m) \in Operation /\ OperationFits(Begun(m))
    BY NoCellsFit DEF Resting, Operation, OperationFits
  <1>2. file.salt \in Salt \cup {None}
    BY DEF SInv, TypeOK
  <1>3. \E m \in Salt \cup {None} : proc' = [proc EXCEPT ![p] = Begun(m)]
    BY <1>2 DEF Open
  <1>4. /\ proc' \in [Process -> Operation]
        /\ \A q \in Process : OperationFits(proc'[q])
    BY <1>1, <1>3, OneOperation
  <1>5. owner' \in [Salt -> Passphrase \cup {None}]
    BY DEF Open, SInv, TypeOK
  <1>6. ops' \in 0..MaxOps
    BY SecretsAssumption DEF Open, SInv, TypeOK
  <1> QED
    BY <1>4, <1>5, <1>6 DEF SInv, TypeOK, Open

LEMMA LoadSInv ==
  ASSUME SInv, NEW p \in Process, Load(p)
  PROVE  SInv'
  <1> DEFINE m == proc[p].manager
             sealed == {c \in Present(file.cells) : file.cells[c].salt # None}
             held == IF sealed = {} THEN None
                     ELSE file.cells[CHOOSE c \in sealed : TRUE].salt
             o == [proc[p] EXCEPT !.pc = "loaded", !.salt = file.salt,
                     !.cells = Decrypted(m, file.cells),
                     !.found = file.status = "valid", !.held = held]
  <1>1. /\ proc[p] \in Operation
        /\ m \in Salt \cup {None}
        /\ file.cells \in Cells
        /\ file.salt \in Salt \cup {None}
        /\ Fits(file.cells, file.salt)
    BY DEF SInv, TypeOK, Operation
  <1>2. /\ Decrypted(m, file.cells) \in Cells
        /\ Fits(Decrypted(m, file.cells), file.salt)
        /\ m # None => Fits(Decrypted(m, file.cells), None)
    BY <1>1, DecryptedFits DEF Load
  <1>3. /\ held \in {None, file.salt}
        /\ held # None /\ m # None => held = m
    <2>1. CASE sealed = {}
      BY <2>1
    <2>2. CASE sealed # {}
      <3>1. PICK c \in sealed : held = file.cells[c].salt
        BY <2>2
      <3>2. c \in Present(file.cells) /\ file.cells[c].salt # None
        BY <3>1
      <3> QED
        BY <1>1, <3>1, <3>2 DEF Fits, Load, CanDecrypt, Prefixed
    <2> QED BY <2>1, <2>2
  <1>4. held \in Salt \cup {None}
    BY <1>1, <1>3
  <1> HIDE DEF held
  <1>5. o \in Operation
    BY <1>1, <1>2, <1>4 DEF Operation
  <1>6. /\ o.pc = "loaded" /\ o.salt = file.salt /\ o.manager = m
        /\ o.cells = Decrypted(m, file.cells) /\ o.held = held
    BY <1>1 DEF Operation
  <1>7. OperationFits(o)
    BY <1>2, <1>3, <1>6 DEF OperationFits, SaltToSave
  <1>8. proc' = [proc EXCEPT ![p] = o]
    BY <1>1 DEF Load, held, SInv, TypeOK, Operation
  <1>9. /\ proc' \in [Process -> Operation]
        /\ \A q \in Process : OperationFits(proc'[q])
    BY <1>5, <1>7, <1>8, OneOperation
  <1> QED
    BY <1>9 DEF SInv, TypeOK, Load

LEMMA BeginWriteSInv ==
  ASSUME SInv, NEW p \in Process, NEW new \in Cells, BeginWrite(p, new)
  PROVE  SInv'
  <1> DEFINE o == proc[p]
             salt == SaltToSave(o)
             sealed == [c \in Cell |-> Sealed(o.manager, c, new[c])]
             w == [o EXCEPT !.pc = "writing", !.salt = salt, !.cells = sealed]
  <1>1. /\ o \in Operation /\ OperationFits(o)
        /\ o.manager \in Salt \cup {None} /\ o.salt \in Salt \cup {None}
        /\ o.pc = "loaded"
    BY DEF SInv, TypeOK, Operation, BeginWrite
  <1>2. Fits(o.cells, o.salt) /\ (o.manager # None => Fits(o.cells, None))
    BY <1>1 DEF OperationFits
  <1>3. \A g \in Given : g # None => g.salt = None
    BY PlainType DEF Given
  <1>4. \A c \in Cell : new[c] \in Given \/ new[c] = o.cells[c]
    <2>1. CASE UpEnds(o, new)
      BY <2>1 DEF UpEnds
    <2>2. CASE RefreshEnds(o, new)
      BY <2>2 DEF RefreshEnds
    <2>3. CASE DestroyEnds(o, new)
      BY <2>3 DEF DestroyEnds, NoCells, Given
    <2> QED BY <2>1, <2>2, <2>3 DEF BeginWrite
  <1>5. Fits(new, o.salt) /\ (o.manager # None => Fits(new, None))
    BY <1>2, <1>3, <1>4 DEF Fits, Present
  <1>6. sealed \in Cells /\ Fits(sealed, salt)
    BY <1>1, <1>5, SealedFits DEF SaltToSave
  <1>7. salt \in Salt \cup {None}
    BY <1>1 DEF SaltToSave
  <1>8. o.held # None => o.held = salt
    BY <1>1 DEF OperationFits
  <1> HIDE DEF sealed, salt
  <1>9. w \in Operation
    BY <1>1, <1>6, <1>7 DEF Operation
  <1>10. /\ w.pc = "writing" /\ w.salt = salt /\ w.cells = sealed
         /\ w.held = o.held
    BY <1>1 DEF Operation
  <1>11. OperationFits(w)
    BY <1>6, <1>8, <1>10 DEF OperationFits
  <1>12. \/ proc' = [proc EXCEPT ![p] = Resting] /\ UNCHANGED file
         \/ proc' = [proc EXCEPT ![p] = w] /\ file' = NoFile("empty")
    BY DEF BeginWrite, salt, sealed
  <1>13. /\ proc' \in [Process -> Operation]
         /\ \A q \in Process : OperationFits(proc'[q])
    BY <1>9, <1>11, <1>12, RestingFits, OneOperation
  <1>14. /\ NoFile("empty") \in [status : {"absent", "valid"} \cup Unreadable,
                                 salt : Salt \cup {None}, cells : Cells]
         /\ Fits(NoFile("empty").cells, NoFile("empty").salt)
    BY NoCellsFit DEF NoFile, Unreadable, Fits
  <1> QED
    BY <1>12, <1>13, <1>14 DEF SInv, TypeOK, BeginWrite

LEMMA EndWriteSInv ==
  ASSUME SInv, NEW p \in Process, EndWrite(p)
  PROVE  SInv'
  <1> DEFINE written == [status |-> "valid", salt |-> proc[p].salt,
                         cells |-> proc[p].cells]
             Files == [status : {"absent", "valid"} \cup Unreadable,
                       salt : Salt \cup {None}, cells : Cells]
  <1>1. /\ proc[p].salt \in Salt \cup {None} /\ proc[p].cells \in Cells
        /\ Fits(proc[p].cells, proc[p].salt)
    BY DEF SInv, TypeOK, Operation, OperationFits, EndWrite
  <1>2. written \in Files /\ Fits(written.cells, written.salt)
    BY <1>1
  <1>3. NoFile("garbled") \in Files /\ Fits(NoFile("garbled").cells, NoFile("garbled").salt)
    BY NoCellsFit DEF NoFile, Unreadable, Fits
  <1>4. file' \in {written, NoFile("garbled")}
    BY DEF EndWrite
  <1>5. /\ proc' \in [Process -> Operation]
        /\ \A q \in Process : OperationFits(proc'[q])
    BY RestingFits, OneOperation DEF EndWrite
  <1>6. file' \in Files /\ Fits(file'.cells, file'.salt)
    BY <1>2, <1>3, <1>4
  <1> QED
    BY <1>5, <1>6 DEF SInv, TypeOK, EndWrite

LEMMA NextSInv == SInv /\ [Next]_vars => SInv'
  <1> SUFFICES ASSUME SInv, [Next]_vars PROVE SInv' OBVIOUS
  <1>1. CASE UNCHANGED vars
    BY <1>1 DEF vars, SInv, TypeOK
  <1>2. CASE Next
    <2> PICK p \in Process :
          \/ \E pass \in Passphrase \cup {None}, s \in Salt : Open(p, pass, s)
          \/ Load(p) \/ Stop(p)
          \/ \E new \in Cells : BeginWrite(p, new)
          \/ EndWrite(p)
      BY <1>2 DEF Next
    <2>1. CASE \E pass \in Passphrase \cup {None}, s \in Salt : Open(p, pass, s)
      BY <2>1, OpenSInv
    <2>2. CASE Load(p)
      BY <2>2, LoadSInv
    <2>3. CASE Stop(p)
      <3>1. /\ proc' \in [Process -> Operation]
            /\ \A q \in Process : OperationFits(proc'[q])
        BY <2>3, RestingFits, OneOperation DEF Stop
      <3> QED BY <2>3, <3>1 DEF Stop, SInv, TypeOK
    <2>4. CASE \E new \in Cells : BeginWrite(p, new)
      BY <2>4, BeginWriteSInv
    <2>5. CASE EndWrite(p)
      BY <2>5, EndWriteSInv
    <2> QED BY <2>1, <2>2, <2>3, <2>4, <2>5
  <1> QED BY <1>1, <1>2

(* The strengthening of the three theorems below holds in every state.     *)
THEOREM SpecSInv == Spec => []SInv
  BY InitSInv, NextSInv, PTL DEF Spec

(* File, processes and salts keep their shape.                             *)
THEOREM SpecTypeOK == Spec => []TypeOK
  <1>1. SInv => TypeOK
    BY DEF SInv
  <1> QED BY <1>1, SpecSInv, PTL

(* For any number of processes, wrong passphrases and interleavings of     *)
(* their loads and saves, a checkpoint's ciphertext is under its salt.     *)
THEOREM SpecCiphertextFitsSalt == Spec => []CiphertextFitsSalt
  <1>1. SInv => CiphertextFitsSalt
    BY DEF SInv, Fits, CiphertextFitsSalt
  <1> QED BY <1>1, SpecSInv, PTL

(* No operation that found ciphertext saves under another salt.            *)
THEOREM SpecSaltKept == Spec => []SaltKept
  <1>1. SInv => SaltKept
    BY DEF SInv, OperationFits, SaltKept
  <1> QED BY <1>1, SpecSInv, PTL

-----------------------------------------------------------------------------
(* The only secrets in the clear are values that look like ciphertext.     *)
OnlyLookalikes(cells) == \A c \in InClear(cells) : cells[c].value \in Lookalike

(* So it is with what a manager has sealed until it is written.            *)
SealedToWrite ==
  \A p \in Process :
    proc[p].pc = "writing" /\ proc[p].manager # None => OnlyLookalikes(proc[p].cells)

LEMMA SealingLeavesLookalikes ==
  ASSUME NEW m \in Salt, NEW cells \in Cells
  PROVE  OnlyLookalikes([c \in Cell |-> Sealed(m, c, cells[c])])
  <1> DEFINE sealed == [c \in Cell |-> Sealed(m, c, cells[c])]
  <1>1. ASSUME NEW c \in Cell, sealed[c] # None, sealed[c].salt = None
        PROVE  sealed[c].value \in Lookalike
    <2>1. m # None
      BY NoneApart
    <2>2. cells[c] # None /\ cells[c] \in Content
      BY <1>1, <2>1 DEF Sealed, Cells
    <2>3. CASE Prefixed(cells[c])
      BY <1>1, <2>1, <2>2, <2>3 DEF Sealed, Prefixed
    <2>4. CASE ~Prefixed(cells[c])
      <3>1. sealed[c] = [cells[c] EXCEPT !.salt = m]
        BY <2>1, <2>2, <2>4 DEF Sealed
      <3>2. sealed[c].salt = m
        BY <2>2, <3>1 DEF Content
      <3> QED
        BY <1>1, <2>1, <3>2
    <2> QED BY <2>3, <2>4
  <1> HIDE DEF sealed
  <1>2. OnlyLookalikes(sealed)
    BY <1>1 DEF OnlyLookalikes, InClear, Present
  <1> QED BY <1>2 DEF sealed

(* Only BeginWrite brings an operation to its write.                       *)
LEMMA OthersDoNotWrite ==
  ASSUME SInv, NEW p \in Process,
         \/ \E pass \in Passphrase \cup {None}, s \in Salt : Open(p, pass, s)
         \/ Load(p) \/ Stop(p) \/ EndWrite(p)
  PROVE  proc'[p].pc # "writing" /\ \A q \in Process \ {p} : proc'[q] = proc[q]
  <1>1. proc \in [Process -> Operation] /\ proc[p] \in Operation
    BY DEF SInv, TypeOK
  <1>2. Resting.pc = "idle" /\ \A m : [Resting EXCEPT !.pc = "opened", !.manager = m].pc = "opened"
    BY DEF Resting
  <1>3. CASE \E pass \in Passphrase \cup {None}, s \in Salt : Open(p, pass, s)
    BY <1>1, <1>2, <1>3 DEF Open
  <1>4. CASE Load(p)
    BY <1>1, <1>4 DEF Load, Operation
  <1>5. CASE Stop(p) \/ EndWrite(p)
    BY <1>1, <1>2, <1>5 DEF Stop, EndWrite
  <1> QED BY <1>3, <1>4, <1>5

LEMMA BeginWriteSeals ==
  ASSUME SInv, NEW p \in Process, NEW new \in Cells, BeginWrite(p, new)
  PROVE  /\ \A q \in Process \ {p} : proc'[q] = proc[q]
         /\ proc'[p].pc = "writing" =>
              /\ proc'[p].manager = proc[p].manager
              /\ proc'[p].cells = [c \in Cell |-> Sealed(proc[p].manager, c, new[c])]
  <1> DEFINE sealed == [c \in Cell |-> Sealed(proc[p].manager, c, new[c])]
  <1>1. proc \in [Process -> Operation] /\ proc[p] \in Operation
    BY DEF SInv, TypeOK
  <1>2. \/ proc' = [proc EXCEPT ![p] = Resting]
        \/ proc' = [proc EXCEPT ![p].pc = "writing", ![p].salt = SaltToSave(proc[p]),
                                ![p].cells = sealed]
    BY DEF BeginWrite
  <1> HIDE DEF sealed
  <1>3. /\ \A q \in Process \ {p} : proc'[q] = proc[q]
        /\ proc'[p].pc = "writing" =>
             proc'[p].manager = proc[p].manager /\ proc'[p].cells = sealed
    BY <1>1, <1>2 DEF Operation, Resting
  <1> QED BY <1>3 DEF sealed

LEMMA NextSealedToWrite == SInv /\ SealedToWrite /\ [Next]_vars => SealedToWrite'
  <1> SUFFICES ASSUME SInv, SealedToWrite, [Next]_vars PROVE SealedToWrite' OBVIOUS
  <1>1. CASE UNCHANGED vars
    BY <1>1 DEF vars, SealedToWrite
  <1>2. CASE Next
    <2> PICK p \in Process :
          \/ \/ \E pass \in Passphrase \cup {None}, s \in Salt : Open(p, pass, s)
             \/ Load(p) \/ Stop(p) \/ EndWrite(p)
          \/ \E new \in Cells : BeginWrite(p, new)
      BY <1>2 DEF Next
    <2>1. CASE \/ \E pass \in Passphrase \cup {None}, s \in Salt : Open(p, pass, s)
               \/ Load(p) \/ Stop(p) \/ EndWrite(p)
      BY <2>1, OthersDoNotWrite DEF SealedToWrite
    <2>2. CASE \E new \in Cells : BeginWrite(p, new)
      <3>1. PICK new \in Cells : BeginWrite(p, new)
        BY <2>2
      <3>2. proc[p].manager \in Salt \cup {None}
        BY DEF SInv, TypeOK, Operation
      <3>3. proc[p].manager # None =>
              OnlyLookalikes([c \in Cell |-> Sealed(proc[p].manager, c, new[c])])
        BY <3>2, SealingLeavesLookalikes
      <3> QED BY <3>1, <3>3, BeginWriteSeals DEF SealedToWrite
    <2> QED BY <2>1, <2>2
  <1> QED BY <1>1, <1>2

(* Between the sealing and the end of a write nothing touches the secrets  *)
(* an operation has in memory, whatever the other processes do.            *)
THEOREM SpecSealedToWrite == Spec => []SealedToWrite
  <1>1. Init => SealedToWrite
    BY DEF Init, Resting, SealedToWrite
  <1> QED BY <1>1, SpecSInv, NextSealedToWrite, PTL DEF Spec

(* Whatever was in the file, and whoever else writes it, an operation with *)
(* a secrets manager writes no secret in the clear that does not begin     *)
(* with "v1:", for any number of places, processes and passphrases.        *)
THEOREM SpecManagerEncrypts == Spec => ManagerEncrypts
  <1> DEFINE Encrypts ==
        \A p \in Process :
          /\ proc[p].pc = "writing" /\ proc[p].manager # None
          /\ proc'[p].pc = "idle" /\ file' # file /\ file'.status = "valid"
          => \A c \in InClear(file'.cells) : file'.cells[c].value \in Lookalike
  <1>1. SInv /\ SealedToWrite /\ [Next]_vars => [Encrypts]_vars
    <2> SUFFICES ASSUME SInv, SealedToWrite, Next, NEW p \in Process,
                        proc[p].pc = "writing", proc[p].manager # None,
                        proc'[p].pc = "idle", file' # file, file'.status = "valid"
                 PROVE  \A c \in InClear(file'.cells) :
                          file'.cells[c].value \in Lookalike
      OBVIOUS
    <2>1. PICK q \in Process :
            \/ \/ \E pass \in Passphrase \cup {None}, s \in Salt : Open(q, pass, s)
               \/ Load(q) \/ Stop(q) \/ EndWrite(q)
            \/ \E new \in Cells : BeginWrite(q, new)
      BY DEF Next
    <2>2. q = p
      BY <2>1, OthersDoNotWrite, BeginWriteSeals
    <2>3. EndWrite(p)
      BY <2>1, <2>2 DEF Open, Load, Stop, BeginWrite
    <2>4. file'.cells = proc[p].cells
      <3>1. file' \in {[status |-> "valid", salt |-> proc[p].salt, cells |-> proc[p].cells],
                       NoFile("garbled")}
        BY <2>3 DEF EndWrite
      <3>2. NoFile("garbled").status # "valid"
        BY DEF NoFile
      <3> QED BY <3>1, <3>2
    <2> QED BY <2>4 DEF SealedToWrite, OnlyLookalikes
  <1> QED BY <1>1, SpecSInv, SpecSealedToWrite, PTL DEF Spec, ManagerEncrypts
=============================================================================
