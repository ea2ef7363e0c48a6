------------------------------ MODULE Secrets ------------------------------
(***************************************************************************)
(* The secrets in a stack's checkpoint file (secrets.rs; load and save in  *)
(* state.rs) as NativeStack (native.rs) opens the file for one operation   *)
(* after another. Several processes may work on one stack: nothing locks   *)
(* the file. Keys are their salts: derive_key is taken to be injective,    *)
(* and decryption under another key to fail, as AES-GCM's tag check does.  *)
(***************************************************************************)
EXTENDS Naturals

CONSTANTS
  Process,     \* processes that run operations on the stack
  Debug,       \* those of them built with debug assertions
  Cell,        \* places of a secret: properties of resources, stack outputs
  Export,      \* the stack outputs among them
  Value,       \* secret values
  Lookalike,   \* those that are strings beginning with "v1:"
  Passphrase,
  Salt,        \* random salts, reused here when nothing refers to them
  None,
  MaxOps       \* bound on the operations started

(* A secret wrapper's "value": plaintext (salt None) or ciphertext.        *)
Content == [value : Value, salt : Salt \cup {None}]

ASSUME SecretsAssumption ==
  /\ Debug \subseteq Process
  /\ Export \subseteq Cell
  /\ Lookalike \subseteq Value
  /\ None \notin Salt \cup Passphrase \cup Content
  /\ MaxOps \in Nat

Cells == [Cell -> Content \cup {None}]
NoCells == [c \in Cell |-> None]

VARIABLES
  file,   \* the checkpoint: [status, salt of secrets_provider, cells]
  owner,  \* [Salt -> the passphrase whose validation token goes with it]
  proc,   \* [Process -> the operation it runs]
  ops     \* operations started (bound)

vars == <<file, owner, proc, ops>>

(* Truncated, or left by two writers at once: neither parses.              *)
Unreadable == {"empty", "garbled"}
NoFile(status) == [status |-> status, salt |-> None, cells |-> NoCells]

Operation ==
  [pc : {"idle", "opened", "loaded", "writing"},
   manager : Salt \cup {None},  \* options.secrets_manager
   salt : Salt \cup {None},     \* secrets_provider of the state
   cells : Cells,               \* secrets in memory, then those to write
   found : BOOLEAN,             \* there was a file to load
   held : Salt \cup {None}]     \* observation: the loaded ciphertext's salt

Resting == [pc |-> "idle", manager |-> None, salt |-> None,
            cells |-> NoCells, found |-> FALSE, held |-> None]

TypeOK ==
  /\ file \in [status : {"absent", "valid"} \cup Unreadable,
               salt : Salt \cup {None}, cells : Cells]
  /\ owner \in [Salt -> Passphrase \cup {None}]
  /\ proc \in [Process -> Operation]
  /\ ops \in 0..MaxOps

Init ==
  /\ file = NoFile("absent")
  /\ owner = [s \in Salt |-> None]
  /\ proc = [p \in Process |-> Resting]
  /\ ops = 0

-----------------------------------------------------------------------------
Present(cells) == {c \in Cell : cells[c] # None}
Plain(v) == [value |-> v, salt |-> None]

(* The code tells ciphertext by its prefix, so a Lookalike passes for it;  *)
(* has_plaintext_secrets asks this test of every secret.                   *)
Prefixed(content) == content.salt # None \/ content.value \in Lookalike
HasPlaintext(cells) == \E c \in Present(cells) : ~Prefixed(cells[c])

Variant_LeaveUndecrypted(m, cells) == TRUE

(* load_encrypted succeeds: every prefixed value decrypts.                 *)
CanDecrypt(m, cells) ==
  m = None \/ \A c \in Present(cells) : Prefixed(cells[c]) => cells[c].salt = m

Decrypted(m, cells) ==
  [c \in Cell |-> IF cells[c] = None \/ m = None THEN cells[c]
                                                 ELSE Plain(cells[c].value)]

Variant_SealsAbsent(m, c, content) ==
  IF m = None THEN content
  ELSE [value |-> IF content = None THEN None ELSE content.value, salt |-> m]
Variant_SkipsExports(m, c, content) ==
  IF m = None \/ content = None \/ c \in Export THEN content
  ELSE [content EXCEPT !.salt = m]

(* save_encrypted of one value: what has the prefix already is left alone. *)
Sealed(m, c, content) ==
  IF m = None \/ content = None THEN content
  ELSE IF Prefixed(content) THEN content ELSE [content EXCEPT !.salt = m]

Variant_ProviderForgotten(o) == o.manager

(* The secrets_provider that is saved: the manager's own, else the one     *)
(* that from_checkpoint and to_checkpoint have carried over.               *)
SaltToSave(o) == IF o.manager # None THEN o.manager ELSE o.salt

Unused(s) ==
  /\ file.salt # s
  /\ \A c \in Present(file.cells) : file.cells[c].salt # s
  /\ \A p \in Process :
       /\ s \notin {proc[p].manager, proc[p].salt, proc[p].held}
       /\ \A c \in Present(proc[p].cells) : proc[p].cells[c].salt # s

-----------------------------------------------------------------------------
(* engine_options: the file is read for its salt only. A passphrase that   *)
(* does not fit the salt gives no manager at all; with no salt to be had,  *)
(* also when the file does not parse, the manager gets a new one.          *)
Open(p, pass, s) ==
  LET recorded == IF file.status = "valid" THEN file.salt ELSE None
      Begin(m) == proc' = [proc EXCEPT ![p] =
                             [Resting EXCEPT !.pc = "opened", !.manager = m]]
  IN /\ proc[p].pc = "idle"
     /\ ops < MaxOps
     /\ ops' = ops + 1
     /\ \/ /\ pass = None
           /\ Begin(None)
           /\ UNCHANGED owner
        \/ /\ pass # None
           /\ recorded # None
           /\ Begin(IF owner[recorded] = pass THEN recorded ELSE None)
           /\ UNCHANGED owner
        \/ /\ pass # None
           /\ recorded = None
           /\ Unused(s)
           /\ Begin(s)
           /\ owner' = [owner EXCEPT ![s] = pass]
     /\ UNCHANGED file

(* load_checkpoint, from_checkpoint.                                       *)
Load(p) ==
  LET sealed == {c \in Present(file.cells) : file.cells[c].salt # None} IN
  /\ proc[p].pc = "opened"
  /\ file.status \notin Unreadable
  /\ CanDecrypt(proc[p].manager, file.cells)
  /\ proc' = [proc EXCEPT
       ![p].pc = "loaded",
       ![p].salt = file.salt,
       ![p].cells = Decrypted(proc[p].manager, file.cells),
       ![p].found = file.status = "valid",
       ![p].held = IF sealed = {} THEN None
                   ELSE file.cells[CHOOSE c \in sealed : TRUE].salt]
  /\ UNCHANGED <<file, owner, ops>>

(* The operation ends without saving: the file does not parse or does not  *)
(* decrypt; a preview; a program that fails; nothing to destroy; a crash,  *)
(* also in the middle of writing.                                          *)
Stop(p) ==
  /\ proc[p].pc # "idle"
  /\ proc' = [proc EXCEPT ![p] = Resting]
  /\ UNCHANGED <<file, owner, ops>>

(* The secrets an operation ends with: what the program or a provider      *)
(* gives, all of it plaintext, or what was loaded.                         *)
Given == {Plain(v) : v \in Value} \cup {None}

(* Old stack outputs stay until the program sets new ones.                 *)
UpEnds(o, new) ==
  \A c \in Cell : new[c] \in Given \/ (c \in Export /\ new[c] = o.cells[c])

(* A resource is read anew, kept when the read fails, or dropped.          *)
RefreshEnds(o, new) ==
  /\ o.found
  /\ \A c \in Cell : new[c] = o.cells[c] \/ (c \notin Export /\ new[c] \in Given)

DestroyEnds(o, new) == o.found /\ new = NoCells

(* save_checkpoint up to the moment fs::write has truncated the file. The  *)
(* debug assertion of Checkpoint::save ends the operation before that.     *)
BeginWrite(p, new) ==
  LET o == proc[p]
      sealed == [c \in Cell |-> Sealed(o.manager, c, new[c])]
      salt == SaltToSave(o)
  IN /\ o.pc = "loaded"
     /\ UpEnds(o, new) \/ RefreshEnds(o, new) \/ DestroyEnds(o, new)
     /\ \/ /\ p \in Debug
           /\ salt # None /\ HasPlaintext(sealed)
           /\ proc' = [proc EXCEPT ![p] = Resting]
           /\ UNCHANGED file
        \/ /\ p \notin Debug \/ salt = None \/ ~HasPlaintext(sealed)
           /\ proc' = [proc EXCEPT ![p].pc = "writing", ![p].salt = salt,
                                   ![p].cells = sealed]
           /\ file' = NoFile("empty")
     /\ UNCHANGED <<owner, ops>>

(* The contents are written from the file's start; over what another       *)
(* process wrote since the truncation, or under what it still writes, they *)
(* may end up mixed.                                                       *)
EndWrite(p) ==
  LET written == [status |-> "valid", salt |-> proc[p].salt,
                  cells |-> proc[p].cells]
      alone == /\ file.status = "empty"
               /\ \A q \in Process \ {p} : proc[q].pc # "writing"
  IN /\ proc[p].pc = "writing"
     /\ file' \in {written} \cup IF alone THEN {} ELSE {NoFile("garbled")}
     /\ proc' = [proc EXCEPT ![p] = Resting]
     /\ UNCHANGED <<owner, ops>>

Next ==
  \E p \in Process :
    \/ \E pass \in Passphrase \cup {None}, s \in Salt : Open(p, pass, s)
    \/ Load(p)
    \/ Stop(p)
    \/ \E new \in Cells : BeginWrite(p, new)
    \/ EndWrite(p)

Spec == Init /\ [][Next]_vars

-----------------------------------------------------------------------------
(* Properties *)

(* Every ciphertext in a checkpoint is under the salt recorded with it, so *)
(* that its passphrase decrypts all of it or none: also after operations   *)
(* without a passphrase or with a wrong one, which carry ciphertext and    *)
(* salt through memory, and with several processes saving in turn.         *)
CiphertextFitsSalt ==
  file.status = "valid" =>
    \A c \in Present(file.cells) : file.cells[c].salt \in {None, file.salt}

(* An operation that found ciphertext saves the salt it found: no run, not *)
(* even one opened before there was a salt, gives a stack a new passphrase.*)
SaltKept ==
  \A p \in Process :
    proc[p].pc = "writing" /\ proc[p].held # None => proc[p].salt = proc[p].held

(* The secrets whoever reads the file can read: what no key has encrypted, *)
(* whatever its prefix.                                                    *)
InClear(cells) == {c \in Present(cells) : cells[c].salt = None}

(* An operation with a secrets manager encrypts every secret of the        *)
(* resources and of the stack outputs, however it was when loaded, but for *)
(* the values that are themselves strings beginning with "v1:".            *)
ManagerEncrypts ==
  [][\A p \in Process :
       /\ proc[p].pc = "writing" /\ proc[p].manager # None
       /\ proc'[p].pc = "idle" /\ file' # file /\ file'.status = "valid"
       => \A c \in InClear(file'.cells) : file'.cells[c].value \in Lookalike]_vars

(* Checkpoint::save is never called with plaintext secrets and a secrets   *)
(* provider: the debug assertion of state.rs, which release builds leave   *)
(* out.                                                                    *)
NoPlaintextBesideSalt ==
  file.status = "valid" /\ file.salt # None => ~HasPlaintext(file.cells)
=============================================================================
