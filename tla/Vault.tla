------------------------------- MODULE Vault -------------------------------
(***************************************************************************)
(* The secrets vault (acer-vault/src/vault.rs) as the `acer secrets'       *)
(* commands use it (acer-cli/src/commands/secrets.rs).  Every command is a *)
(* process of its own: it prompts for the password, loads the whole file,  *)
(* changes its copy in memory and writes the whole file back.  Nothing     *)
(* locks the file, and fs::write truncates it before it writes.  A write   *)
(* that finds the file written since its own truncation may be shorter     *)
(* than what is there, and then leaves the tail of the other one behind.   *)
(*                                                                         *)
(* A ciphertext is the value and the key it was encrypted under; a key is  *)
(* a password stretched with a salt (PBKDF2).  Decrypting under any other  *)
(* key fails (AES-GCM).  No password is checked when a vault is unlocked.  *)
(***************************************************************************)
EXTENDS Integers, FiniteSets

CONSTANTS
    Clients,        \* processes running a command
    Keys, Values, Passwords,
    MaxOps          \* bound: commands run altogether

ASSUME VaultAssumption == MaxOps \in Nat

Ops == {"set", "get", "delete", "unlock", "rotate"}

VARIABLES
    file,       \* "missing", "ok", "torn" between truncation and write, or
                \* "mangled": one write over the beginning of another
    disk,       \* what the file says when it is "ok": salt and secrets
    salts,      \* salts drawn so far: a fresh one is the next number
    password,   \* history: the password the vault was last saved under
    kept,       \* history: the secrets the commands that were saved have left,
                \* each with the password it was typed or rotated under
    pc, op, pw, newpw, arg, val,    \* each client's command and its inputs
    mem,        \* each client's copy of the vault
    ekey,       \* each client's encryption key
    answer,     \* how each client's last command ended
    ops,
    disturbed   \* history: what has happened beside commands run one at a time,
                \* with the right password, to their end: "race", "typo", "crash"

fileVars   == <<file, disk, salts>>
inputs     == <<op, pw, newpw, arg, val>>
clientVars == <<pc, inputs, mem, ekey, answer, ops, disturbed>>
vars       == <<fileVars, password, kept, clientVars>>

EncryptionKeys == [password : Passwords, salt : Nat]
Ciphers == [value : Values, key : EncryptionKeys]

\* Maps from some of the keys, and the record the file holds.
IsMap(f, range) ==
    /\ DOMAIN f \subseteq Keys
    /\ f \in [DOMAIN f -> range]
IsVault(v) ==
    /\ v \in [salt : Nat, secrets : {v.secrets}]
    /\ IsMap(v.secrets, Ciphers)

NewVault(salt) == [salt |-> salt, secrets |-> [k \in {} |-> k]]

Init ==
    /\ file = "missing"
    /\ disk = NewVault(0)
    /\ salts = 0
    /\ password \in Passwords
    /\ kept = [k \in {} |-> k]
    /\ pc = [c \in Clients |-> "idle"]
    /\ op = [c \in Clients |-> "get"]
    /\ pw = [c \in Clients |-> password]
    /\ newpw = [c \in Clients |-> password]
    /\ arg \in [Clients -> Keys]
    /\ val \in [Clients -> Values]
    /\ mem = [c \in Clients |-> NewVault(0)]
    /\ ekey = [c \in Clients |-> [password |-> password, salt |-> 0]]
    /\ answer = [c \in Clients |-> "none"]
    /\ ops = 0
    /\ disturbed = {}

-----------------------------------------------------------------------------
Goto(c, label) == pc' = [pc EXCEPT ![c] = label]

Finish(c, how) ==
    /\ Goto(c, "idle")
    /\ answer' = [answer EXCEPT ![c] = how]

Active == {c \in Clients : pc[c] # "idle"}

\* The user types a command and, at the prompt, a password.
Begin(c) ==
    /\ pc[c] = "idle"
    /\ ops < MaxOps
    /\ ops' = ops + 1
    /\ Goto(c, "prompted")
    /\ \E o \in Ops, k \in Keys, v \in Values, p \in Passwords, n \in Passwords :
          /\ o # "set" => v = val[c]              \* inputs it does not ask for
          /\ o \in {"unlock", "rotate"} => k = arg[c]
          /\ o # "rotate" => n = newpw[c]
          /\ op' = [op EXCEPT ![c] = o]
          /\ arg' = [arg EXCEPT ![c] = k]
          /\ val' = [val EXCEPT ![c] = v]
          /\ pw' = [pw EXCEPT ![c] = p]
          /\ newpw' = [newpw EXCEPT ![c] = n]
          /\ disturbed' = disturbed \cup (IF Active = {} THEN {} ELSE {"race"})
                                   \cup (IF p = password THEN {} ELSE {"typo"})
    /\ answer' = [answer EXCEPT ![c] = "none"]
    /\ UNCHANGED <<fileVars, password, kept, mem, ekey>>

\* unlock() derives the key with the vault's salt.
UnlockSalt(v) == v.salt

Loaded(c, v) ==
    /\ mem' = [mem EXCEPT ![c] = v]
    /\ ekey' = [ekey EXCEPT ![c] = [password |-> pw[c], salt |-> UnlockSalt(v)]]
    /\ Goto(c, "loaded")

\* SecretsVault::load(path, Some(password)): a missing file is a new vault
\* with a fresh salt; a torn or mangled one does not parse.
Load(c) ==
    /\ pc[c] = "prompted"
    /\ \/ /\ file = "missing"
          /\ salts' = salts + 1
          /\ Loaded(c, NewVault(salts + 1))
          /\ UNCHANGED answer
       \/ /\ file = "ok"
          /\ Loaded(c, disk)
          /\ UNCHANGED <<salts, answer>>
       \/ /\ file \in {"torn", "mangled"}
          /\ Finish(c, "unparsable")
          /\ UNCHANGED <<salts, mem, ekey>>
    /\ UNCHANGED <<file, disk, password, kept, inputs, ops, disturbed>>

-----------------------------------------------------------------------------
Encrypt(value, key) == [value |-> value, key |-> key]
CanDecrypt(cipher, key) == cipher.key = key

With(secrets, k, cipher) ==
    [x \in DOMAIN secrets \cup {k} |-> IF x = k THEN cipher ELSE secrets[x]]
Without(secrets, k) == [x \in DOMAIN secrets \ {k} |-> secrets[x]]

\* store(): insert under the key of this process, then save().
Store(c) ==
    /\ pc[c] = "loaded" /\ op[c] = "set"
    /\ mem' = [mem EXCEPT ![c].secrets =
                  With(mem[c].secrets, arg[c], Encrypt(val[c], ekey[c]))]
    /\ Goto(c, "save")
    /\ UNCHANGED <<fileVars, password, kept, inputs, ekey, answer, ops, disturbed>>

\* delete(): needs no key; a missing secret is not saved.
Delete(c) ==
    /\ pc[c] = "loaded" /\ op[c] = "delete"
    /\ IF arg[c] \in DOMAIN mem[c].secrets
       THEN /\ mem' = [mem EXCEPT ![c].secrets = Without(mem[c].secrets, arg[c])]
            /\ Goto(c, "save")
            /\ UNCHANGED answer
       ELSE Finish(c, "not_found") /\ UNCHANGED mem
    /\ UNCHANGED <<fileVars, password, kept, inputs, ekey, ops, disturbed>>

\* get(): the value, or "Decryption failed".
Get(c) ==
    /\ pc[c] = "loaded" /\ op[c] = "get"
    /\ Finish(c, IF arg[c] \notin DOMAIN mem[c].secrets THEN "not_found"
                 ELSE IF CanDecrypt(mem[c].secrets[arg[c]], ekey[c])
                 THEN "value" ELSE "decryption_failed")
    /\ UNCHANGED <<fileVars, password, kept, inputs, mem, ekey, ops, disturbed>>

\* `acer secrets unlock': is_unlocked() is true of every loaded vault.
Unlock(c) ==
    /\ pc[c] = "loaded" /\ op[c] = "unlock"
    /\ Finish(c, "unlocked")
    /\ UNCHANGED <<fileVars, password, kept, inputs, mem, ekey, ops, disturbed>>

\* rotate_key decrypts every secret first, and fails before changing any.
AllDecrypt(secrets, key) ==
    \A k \in DOMAIN secrets : CanDecrypt(secrets[k], key)

\* Mutant of Reencrypted: the secret of a vault of one is forgotten.
ReencryptedOneLess(secrets, key) ==
    [k \in {x \in DOMAIN secrets : \E y \in DOMAIN secrets : y # x} |->
        Encrypt(secrets[k].value, key)]

Reencrypted(secrets, key) ==
    [k \in DOMAIN secrets |-> Encrypt(secrets[k].value, key)]

\* rotate_key(): a fresh salt, a new key, everything encrypted again.
Rotate(c) ==
    /\ pc[c] = "loaded" /\ op[c] = "rotate"
    /\ IF AllDecrypt(mem[c].secrets, ekey[c])
       THEN LET key == [password |-> newpw[c], salt |-> salts + 1]
            IN  /\ salts' = salts + 1
                /\ ekey' = [ekey EXCEPT ![c] = key]
                /\ mem' = [mem EXCEPT ![c] =
                              [salt    |-> salts + 1,
                               secrets |-> Reencrypted(mem[c].secrets, key)]]
                /\ Goto(c, "save")
                /\ UNCHANGED answer
       ELSE /\ Finish(c, "decryption_failed")
            /\ UNCHANGED <<salts, ekey, mem>>
    /\ UNCHANGED <<file, disk, password, kept, inputs, ops, disturbed>>

-----------------------------------------------------------------------------
\* save(): fs::write truncates the file ...
Truncate(c) ==
    /\ pc[c] = "save"
    /\ file' = "torn"
    /\ Goto(c, "write")
    /\ UNCHANGED <<disk, salts, password, kept, inputs, mem, ekey, answer,
                   ops, disturbed>>

\* Mutant of Written: the salt of the file is kept.
WrittenKeepingSalt(c) == disk' = [disk EXCEPT !.secrets = mem[c].secrets]

Written(c) == disk' = mem[c]

\* The text of the file once this process has written its own.
Landed ==
    IF file = "torn" THEN file' = "ok" ELSE file' \in {"ok", "mangled"}

\* What a command that was saved has done to the secrets.
Settled(c) ==
    CASE op[c] = "set"    -> With(kept, arg[c], [value |-> val[c], password |-> pw[c]])
      [] op[c] = "delete" -> Without(kept, arg[c])
      [] op[c] = "rotate" -> [k \in DOMAIN kept |-> [value |-> kept[k].value, password |-> newpw[c]]]

\* ... and then writes it, and the command reports success.
Write(c) ==
    /\ pc[c] = "write"
    /\ Landed
    /\ Written(c)
    /\ Finish(c, "saved")
    /\ password' = IF op[c] = "rotate" THEN newpw[c] ELSE password
    /\ kept' = Settled(c)
    /\ UNCHANGED <<salts, inputs, mem, ekey, ops, disturbed>>

\* The disk is full: the error is returned, the file stays truncated.
WriteFails(c) ==
    /\ pc[c] = "write"
    /\ Finish(c, "io_error")
    /\ disturbed' = disturbed \cup {"crash"}
    /\ UNCHANGED <<fileVars, password, kept, inputs, mem, ekey, ops>>

Crash(c) ==
    /\ pc[c] # "idle"
    /\ Finish(c, "crashed")
    /\ disturbed' = disturbed \cup {"crash"}
    /\ UNCHANGED <<fileVars, password, kept, inputs, mem, ekey, ops>>

Step(c) ==
    Load(c) \/ Store(c) \/ Delete(c) \/ Get(c) \/ Unlock(c) \/ Rotate(c)
            \/ Truncate(c) \/ Write(c)

Next == \E c \in Clients : Begin(c) \/ Step(c) \/ Crash(c) \/ WriteFails(c)

Spec == Init /\ [][Next]_vars

-----------------------------------------------------------------------------
Labels == {"idle", "prompted", "loaded", "save", "write"}
Answers == {"none", "unparsable", "not_found", "value", "decryption_failed",
            "unlocked", "saved", "crashed", "io_error"}

\* Types, and no salt is in use that was never drawn.
TypeOK ==
    /\ file \in {"missing", "ok", "torn", "mangled"}
    /\ IsVault(disk)
    /\ salts \in Nat
    /\ password \in Passwords
    /\ pc \in [Clients -> Labels]
    /\ op \in [Clients -> Ops]
    /\ pw \in [Clients -> Passwords] /\ newpw \in [Clients -> Passwords]
    /\ arg \in [Clients -> Keys] /\ val \in [Clients -> Values]
    /\ DOMAIN mem = Clients /\ \A c \in Clients : IsVault(mem[c])
    /\ ekey \in [Clients -> EncryptionKeys]
    /\ answer \in [Clients -> Answers]
    /\ ops \in Nat /\ disturbed \subseteq {"race", "typo", "crash"}
    /\ disk.salt <= salts
    /\ \A c \in Clients : mem[c].salt <= salts /\ ekey[c].salt <= salts

\* Every ciphertext was made under the key.
Under(secrets, key) == \A k \in DOMAIN secrets : secrets[k].key = key

CurrentKey == [password |-> password, salt |-> disk.salt]

\* When commands run one after the other and nobody mistypes, everything in
\* the file opens with the vault's password, across any number of rotations.
OneKey ==
    (disturbed = {} /\ file = "ok") => Under(disk.secrets, CurrentKey)

\* Whatever races, crashes and mistyped passwords: all that a file which can
\* be parsed holds was encrypted with the salt of that file.
OneSalt ==
    file = "ok" =>
        \A k \in DOMAIN disk.secrets : disk.secrets[k].key.salt = disk.salt

\* When commands run one after the other, with whatever passwords: a file
\* that can be parsed holds every secret that was stored and not deleted, and
\* nothing else, each with the value stored last, to be opened with the
\* password it was stored with or, since, rotated to.  A command that is cut
\* short takes all of it or nothing; and if none is, the file can be parsed.
NothingIsLost ==
    "race" \notin disturbed =>
        /\ file = "ok" =>
              disk.secrets = [k \in DOMAIN kept |->
                  Encrypt(kept[k].value, [password |-> kept[k].password, salt |-> disk.salt])]
        /\ ("crash" \notin disturbed /\ Active = {} /\ DOMAIN kept # {}) => file = "ok"

-----------------------------------------------------------------------------
(***************************************************************************)
(* What the vault promises: a map from names to values, whose content is   *)
(* what the right password opens.                                          *)
(***************************************************************************)
Opened ==
    [k \in {x \in DOMAIN disk.secrets : CanDecrypt(disk.secrets[x], CurrentKey)} |->
        disk.secrets[k].value]

Command(c) == [op |-> op[c], key |-> arg[c], value |-> val[c]]

NoCommand == [op |-> "none"]

\* What the command does to the map, and what it then says.
Changed(command, map) ==
    CASE command.op = "set"    -> With(map, command.key, command.value)
      [] command.op = "delete" -> Without(map, command.key)
      [] OTHER                 -> map

Said(command, map) ==
    CASE command.op = "unlock" -> {<<"unlocked">>}
      [] command.op \in {"get", "delete"} /\ command.key \notin DOMAIN map
                               -> {<<"not_found">>}
      [] command.op = "get" /\ command.key \in DOMAIN map
                               -> {<<"value", map[command.key]>>}
      [] OTHER                 -> {<<"saved">>}

\* The answer of a client, with the value it was shown.
Told(c) ==
    IF answer[c] = "value" THEN <<"value", mem[c].secrets[arg[c]].value>>
                           ELSE <<answer[c]>>

Promise == INSTANCE AtomicFile WITH
    Edits   <- [op : Ops, key : Keys, value : Values],
    Idle    <- NoCommand,
    NoReply <- <<"none">>,
    Apply   <- Changed,
    Replies <- Said,
    content <- Opened,
    pending <- [c \in Clients |-> IF pc[c] = "idle" THEN NoCommand ELSE Command(c)],
    reply   <- [c \in Clients |-> Told(c)],
    calm    <- (disturbed = {})

\* When commands run one after the other and nobody mistypes, the vault is a
\* map: every secret that was stored and not deleted opens with the password
\* and has the value stored last, across any number of rotations; every get
\* shows it; and no command fails but for a name that is not there.
ImplementsAtomicFile == Promise!Spec

=============================================================================
