---------------------------- MODULE VaultProofs ----------------------------
(***************************************************************************)
(* Proofs about Vault, for any number of commands, keys and passwords.     *)
(* OneSalt holds in every behaviour, with races, crashes and mistyped      *)
(* passwords; NothingIsLost when commands run one at a time and to their   *)
(* end, OneKey and the promise when nobody mistypes either.                *)
(***************************************************************************)
EXTENDS Vault, TLAPS

\* The map operations keep maps maps.
LEMMA WithIsMap ==
    ASSUME NEW R, NEW f, IsMap(f, R), NEW k \in Keys, NEW x \in R
    PROVE  IsMap(With(f, k, x), R)
  BY DEF IsMap, With

LEMMA WithoutIsMap ==
    ASSUME NEW R, NEW f, IsMap(f, R), NEW k
    PROVE  IsMap(Without(f, k), R)
  BY DEF IsMap, Without

LEMMA ReencryptedIsMap ==
    ASSUME NEW s, IsMap(s, Ciphers), NEW key \in EncryptionKeys
    PROVE  IsMap(Reencrypted(s, key), Ciphers)
<1>1. \A k \in DOMAIN s : s[k].value \in Values
  BY DEF IsMap, Ciphers
<1>2. \A k \in DOMAIN s : Encrypt(s[k].value, key) \in Ciphers
  BY <1>1 DEF Encrypt, Ciphers
<1>3. QED
  BY <1>2 DEF IsMap, Reencrypted

LEMMA VaultShape ==
    ASSUME NEW n \in Nat, NEW s, IsMap(s, Ciphers)
    PROVE  IsVault([salt |-> n, secrets |-> s])
  BY DEF IsVault

LEMMA NewVaultShape ==
    ASSUME NEW n \in Nat
    PROVE  IsVault(NewVault(n)) /\ NewVault(n).salt = n
<1>1. IsMap([k \in {} |-> k], Ciphers)
  BY DEF IsMap
<1>2. QED
  BY <1>1, VaultShape DEF NewVault

\* What the edit of a command makes of its copy.
LEMMA EditShape ==
    ASSUME NEW v, IsVault(v), NEW s, IsMap(s, Ciphers)
    PROVE  /\ IsVault([v EXCEPT !.secrets = s])
           /\ [v EXCEPT !.secrets = s].salt = v.salt
           /\ [v EXCEPT !.secrets = s].secrets = s
<1>1. v.salt \in Nat /\ v = [salt |-> v.salt, secrets |-> v.secrets]
  BY DEF IsVault
<1>2. [v EXCEPT !.secrets = s] = [salt |-> v.salt, secrets |-> s]
  BY <1>1
<1>3. QED
  BY <1>1, <1>2, VaultShape

-----------------------------------------------------------------------------
LEMMA TypeInit == Init => TypeOK
<1> SUFFICES ASSUME Init PROVE TypeOK
  OBVIOUS
<1>1. IsVault(NewVault(0)) /\ NewVault(0).salt = 0
  BY NewVaultShape
<1>3. \A c \in Clients : mem[c] = NewVault(0)
  BY DEF Init
<1>4. ekey \in [Clients -> EncryptionKeys] /\ \A c \in Clients : ekey[c].salt = 0
  BY DEF Init, EncryptionKeys
<1>5. /\ pc \in [Clients -> Labels]
      /\ op \in [Clients -> Ops]
      /\ pw \in [Clients -> Passwords] /\ newpw \in [Clients -> Passwords]
      /\ answer \in [Clients -> Answers]
      /\ DOMAIN mem = Clients
  BY DEF Init, Labels, Ops, Answers
<1>6. arg \in [Clients -> Keys] /\ val \in [Clients -> Values]
  BY DEF Init
<1>7. ops \in Nat /\ disturbed \subseteq {"race", "typo", "crash"}
  BY DEF Init
<1>8. /\ file \in {"missing", "ok", "torn", "mangled"} /\ IsVault(disk) /\ disk.salt = 0
      /\ salts = 0 /\ password \in Passwords
  BY <1>1 DEF Init
<1>9. QED
  BY <1>1, <1>3, <1>4, <1>5, <1>6, <1>7, <1>8 DEF TypeOK

\* A client's step changes its labels to labels and its answer to answers.
LEMMA TypeBegin ==
    ASSUME TypeOK, NEW c \in Clients, Begin(c)
    PROVE  TypeOK'
<1> USE VaultAssumption DEF TypeOK
<1>1. /\ pc' \in [Clients -> Labels] /\ answer' \in [Clients -> Answers]
      /\ ops' \in Nat
  BY DEF Begin, Goto, Labels, Answers
<1>2. /\ op' \in [Clients -> Ops] /\ arg' \in [Clients -> Keys]
      /\ val' \in [Clients -> Values] /\ pw' \in [Clients -> Passwords]
      /\ newpw' \in [Clients -> Passwords]
  BY DEF Begin
<1>3. QED
  BY <1>1, <1>2 DEF Begin, fileVars, IsVault, IsMap

LEMMA TypeLoad ==
    ASSUME TypeOK, NEW c \in Clients, Load(c)
    PROVE  TypeOK'
<1> USE DEF TypeOK
<1>1. /\ pc' \in [Clients -> Labels] /\ answer' \in [Clients -> Answers]
  BY DEF Load, Loaded, Finish, Goto, Labels, Answers
<1>2. ASSUME NEW v, IsVault(v), v.salt <= salts', salts' \in Nat, salts <= salts',
             Loaded(c, v)
      PROVE  /\ DOMAIN mem' = Clients /\ \A d \in Clients : IsVault(mem'[d])
             /\ ekey' \in [Clients -> EncryptionKeys]
             /\ \A d \in Clients : mem'[d].salt <= salts' /\ ekey'[d].salt <= salts'
  <2>1. v.salt \in Nat
    BY <1>2 DEF IsVault
  <2>2. [password |-> pw[c], salt |-> v.salt] \in EncryptionKeys
    BY <2>1 DEF EncryptionKeys
  <2>3. /\ mem' = [mem EXCEPT ![c] = v]
        /\ ekey' = [ekey EXCEPT ![c] = [password |-> pw[c], salt |-> v.salt]]
    BY <1>2 DEF Loaded, UnlockSalt
  <2>4. \A d \in Clients : mem[d].salt \in Nat /\ ekey[d].salt \in Nat
    BY DEF IsVault, EncryptionKeys
  <2>5. QED
    BY <1>2, <2>1, <2>2, <2>3, <2>4
<1>3. CASE file = "missing"
  <2>1. salts' = salts + 1 /\ Loaded(c, NewVault(salts + 1))
    BY <1>3 DEF Load
  <2>2. IsVault(NewVault(salts + 1)) /\ NewVault(salts + 1).salt = salts + 1
    BY NewVaultShape
  <2>3. disk.salt \in Nat
    BY DEF IsVault
  <2>4. UNCHANGED <<file, disk, password, op, pw, newpw, arg, val, ops, disturbed>>
    BY DEF Load, inputs
  <2>5. QED
    BY <1>1, <1>2, <2>1, <2>2, <2>3, <2>4
<1>4. CASE file = "ok"
  <2>1. Loaded(c, disk) /\ UNCHANGED salts
    BY <1>4 DEF Load
  <2>2. UNCHANGED <<file, disk, password, op, pw, newpw, arg, val, ops, disturbed>>
    BY DEF Load, inputs
  <2>3. QED
    BY <1>1, <1>2, <2>1, <2>2
<1>5. CASE file \in {"torn", "mangled"}
  BY <1>1, <1>5 DEF Load, inputs
<1>6. QED
  BY <1>3, <1>4, <1>5

\* A step that edits the copy of one command, or none.
LEMMA TypeEdit ==
    ASSUME TypeOK, NEW c \in Clients,
           Store(c) \/ Delete(c) \/ Get(c) \/ Unlock(c)
    PROVE  TypeOK'
<1> USE DEF TypeOK
<1>1. /\ pc' \in [Clients -> Labels] /\ answer' \in [Clients -> Answers]
  BY DEF Store, Delete, Get, Unlock, Finish, Goto, Labels, Answers
<1>2. UNCHANGED <<file, disk, salts, password, op, pw, newpw, arg, val,
                  ekey, ops, disturbed>>
  BY DEF Store, Delete, Get, Unlock, fileVars, inputs
<1>3. IsMap(mem[c].secrets, Ciphers) /\ IsVault(mem[c])
  BY DEF IsVault
<1>4. ASSUME NEW s, IsMap(s, Ciphers), mem' = [mem EXCEPT ![c].secrets = s]
      PROVE  /\ DOMAIN mem' = Clients
             /\ \A d \in Clients : IsVault(mem'[d]) /\ mem'[d].salt = mem[d].salt
  <2>1. mem'[c] = [mem[c] EXCEPT !.secrets = s]
    BY <1>4
  <2>2. IsVault(mem'[c]) /\ mem'[c].salt = mem[c].salt
    BY <1>3, <1>4, <2>1, EditShape
  <2>3. QED
    BY <1>4, <2>2
<1>5. CASE UNCHANGED mem
  BY <1>1, <1>2, <1>5
<1>6. CASE Store(c)
  <2>1. Encrypt(val[c], ekey[c]) \in Ciphers
    BY DEF Encrypt, Ciphers
  <2>2. IsMap(With(mem[c].secrets, arg[c], Encrypt(val[c], ekey[c])), Ciphers)
    BY <1>3, <2>1, WithIsMap
  <2>3. QED
    BY <1>1, <1>2, <1>4, <1>6, <2>2 DEF Store
<1>7. CASE mem' = [mem EXCEPT ![c].secrets = Without(mem[c].secrets, arg[c])]
  <2>1. IsMap(Without(mem[c].secrets, arg[c]), Ciphers)
    BY <1>3, WithoutIsMap
  <2>2. QED
    BY <1>1, <1>2, <1>4, <1>7, <2>1
<1>8. QED
  BY <1>5, <1>6, <1>7 DEF Delete, Get, Unlock

LEMMA TypeRotate ==
    ASSUME TypeOK, NEW c \in Clients, Rotate(c)
    PROVE  TypeOK'
<1> USE DEF TypeOK
<1>1. /\ pc' \in [Clients -> Labels] /\ answer' \in [Clients -> Answers]
  BY DEF Rotate, Finish, Goto, Labels, Answers
<1>2. UNCHANGED <<file, disk, password, op, pw, newpw, arg, val,
                  ops, disturbed>>
  BY DEF Rotate, inputs
<1>3. CASE UNCHANGED <<salts, ekey, mem>>
  BY <1>1, <1>2, <1>3
<1>4. CASE AllDecrypt(mem[c].secrets, ekey[c])
  <2> DEFINE key == [password |-> newpw[c], salt |-> salts + 1]
             new == [salt |-> salts + 1, secrets |-> Reencrypted(mem[c].secrets, key)]
  <2>1. /\ salts' = salts + 1
        /\ ekey' = [ekey EXCEPT ![c] = key] /\ mem' = [mem EXCEPT ![c] = new]
    BY <1>4 DEF Rotate
  <2>2. key \in EncryptionKeys
    BY DEF EncryptionKeys
  <2>3. IsVault(new)
    BY <2>2, ReencryptedIsMap, VaultShape DEF IsVault
  <2>4. \A d \in Clients : mem[d].salt \in Nat /\ ekey[d].salt \in Nat
    BY DEF IsVault, EncryptionKeys
  <2>5. disk.salt \in Nat
    BY DEF IsVault
  <2>6. \A d \in Clients : mem'[d].salt <= salts' /\ ekey'[d].salt <= salts'
    BY <2>1, <2>4
  <2>7. /\ DOMAIN mem' = Clients /\ \A d \in Clients : IsVault(mem'[d])
        /\ ekey' \in [Clients -> EncryptionKeys]
    BY <2>1, <2>2, <2>3
  <2>8. QED
    BY <1>1, <1>2, <2>1, <2>5, <2>6, <2>7
<1>5. QED
  BY <1>3, <1>4 DEF Rotate

LEMMA TypeSave ==
    ASSUME TypeOK, NEW c \in Clients,
           Truncate(c) \/ Write(c) \/ Crash(c) \/ WriteFails(c)
    PROVE  TypeOK'
<1> USE DEF TypeOK
<1>1. /\ pc' \in [Clients -> Labels] /\ answer' \in [Clients -> Answers]
      /\ disturbed' \subseteq {"race", "typo", "crash"}
      /\ file' \in {"missing", "ok", "torn", "mangled"}
  BY DEF Truncate, Write, Crash, WriteFails, Landed, Finish, Goto, Labels,
         Answers, fileVars
<1>2. UNCHANGED <<salts, op, pw, newpw, arg, val, mem, ekey, ops>>
  BY DEF Truncate, Write, Crash, WriteFails, fileVars, inputs
<1>3. CASE Write(c)
  <2>1. disk' = mem[c]
    BY <1>3 DEF Write, Written
  <2>2. password' \in Passwords
    BY <1>3 DEF Write
  <2>3. QED
    BY <1>1, <1>2, <2>1, <2>2
<1>4. CASE Truncate(c) \/ Crash(c) \/ WriteFails(c)
  BY <1>1, <1>2, <1>4 DEF Truncate, Crash, WriteFails, fileVars
<1>5. QED
  BY <1>3, <1>4

\* Types and salts: no step uses a salt that was never drawn.
THEOREM VaultTypeCorrect == Spec => []TypeOK
<1>1. TypeOK /\ [Next]_vars => TypeOK'
  <2> SUFFICES ASSUME TypeOK, [Next]_vars PROVE TypeOK'
    OBVIOUS
  <2>1. ASSUME NEW c \in Clients, Begin(c) \/ Step(c) \/ Crash(c) \/ WriteFails(c)
        PROVE  TypeOK'
    BY <2>1, TypeBegin, TypeLoad, TypeEdit, TypeRotate, TypeSave DEF Step
  <2>2. CASE UNCHANGED vars
    BY <2>2 DEF vars, fileVars, clientVars, inputs, TypeOK
  <2>3. QED
    BY <2>1, <2>2 DEF Next
<1>2. QED
  BY <1>1, TypeInit, PTL DEF Spec

-----------------------------------------------------------------------------
\* A command works under the key of its password, until a rotation makes a
\* new one.
CopyInv ==
    \A c \in Clients :
        pc[c] = "loaded" => ekey[c] = [password |-> pw[c], salt |-> mem[c].salt]

RotateInv == TypeOK /\ CopyInv

\* A step of one command leaves what every other one has alone.
LEMMA OthersKeep ==
    ASSUME TypeOK, NEW c \in Clients,
           Begin(c) \/ Step(c) \/ Crash(c) \/ WriteFails(c),
           NEW d \in Clients, d # c
    PROVE  /\ pc'[d] = pc[d] /\ op'[d] = op[d] /\ pw'[d] = pw[d]
           /\ newpw'[d] = newpw[d] /\ mem'[d] = mem[d] /\ ekey'[d] = ekey[d]
<1> USE DEF TypeOK
<1>1. CASE Begin(c)
  BY <1>1 DEF Begin, Goto, fileVars
<1>2. CASE Load(c)
  BY <1>2 DEF Load, Loaded, Finish, Goto, inputs
<1>3. CASE Store(c) \/ Delete(c) \/ Get(c) \/ Unlock(c)
  BY <1>3 DEF Store, Delete, Get, Unlock, Finish, Goto, inputs
<1>4. CASE Rotate(c)
  BY <1>4 DEF Rotate, Finish, Goto, inputs
<1>5. CASE Truncate(c) \/ Write(c) \/ Crash(c) \/ WriteFails(c)
  BY <1>5 DEF Truncate, Write, Crash, WriteFails, Finish, Goto, inputs
<1>6. QED
  BY <1>1, <1>2, <1>3, <1>4, <1>5 DEF Step

\* What each step makes of the command that takes it.
LEMMA CopyStays ==
    ASSUME RotateInv, NEW c \in Clients,
           Begin(c) \/ Step(c) \/ Crash(c) \/ WriteFails(c)
    PROVE  pc'[c] = "loaded" => ekey'[c] = [password |-> pw'[c], salt |-> mem'[c].salt]
<1> USE DEF RotateInv, TypeOK
<1>1. CASE Load(c)
  <2>1. \/ \E v : Loaded(c, v)
        \/ pc'[c] = "idle"
    BY <1>1 DEF Load, Finish, Goto
  <2>2. pw'[c] = pw[c]
    BY <1>1 DEF Load, inputs
  <2>3. ASSUME NEW v, Loaded(c, v)
        PROVE  ekey'[c] = [password |-> pw'[c], salt |-> mem'[c].salt]
    BY <2>2, <2>3 DEF Loaded, UnlockSalt
  <2>4. QED
    BY <2>1, <2>3
<1>2. CASE Begin(c)
  BY <1>2 DEF Begin, Goto
<1>3. CASE Store(c) \/ Delete(c) \/ Get(c) \/ Unlock(c) \/ Rotate(c)
  BY <1>3 DEF Store, Delete, Get, Unlock, Rotate, Finish, Goto
<1>4. CASE Truncate(c) \/ Write(c) \/ Crash(c) \/ WriteFails(c)
  BY <1>4 DEF Truncate, Write, Crash, WriteFails, Finish, Goto
<1>5. QED
  BY <1>1, <1>2, <1>3, <1>4 DEF Step

\* What rotate_key makes of the copy.
LEMMA RotatedCopy ==
    ASSUME RotateInv, NEW c \in Clients, Rotate(c), pc'[c] # "idle"
    PROVE  Under(mem'[c].secrets, [password |-> newpw[c], salt |-> mem'[c].salt])
<1> USE DEF RotateInv, TypeOK
<1> DEFINE key == [password |-> newpw[c], salt |-> salts + 1]
<1>1. mem'[c] = [salt |-> salts + 1, secrets |-> Reencrypted(mem[c].secrets, key)]
  BY DEF Rotate, Finish, Goto
<1>2. \A k \in DOMAIN mem'[c].secrets : mem'[c].secrets[k].key = key
  BY <1>1 DEF Reencrypted, Encrypt
<1>3. mem'[c].salt = salts + 1
  BY <1>1
<1> QED BY <1>2, <1>3 DEF Under

LEMMA RotateStep == RotateInv /\ [Next]_vars => CopyInv'
<1> SUFFICES ASSUME RotateInv, [Next]_vars PROVE CopyInv'
  OBVIOUS
<1>1. ASSUME NEW c \in Clients, Begin(c) \/ Step(c) \/ Crash(c) \/ WriteFails(c)
      PROVE  CopyInv'
  BY <1>1, CopyStays, OthersKeep DEF RotateInv, CopyInv
<1>2. CASE UNCHANGED vars
  BY <1>2 DEF vars, clientVars, inputs, RotateInv, CopyInv
<1> QED BY <1>1, <1>2 DEF Next

LEMMA RotateInvariant == Spec => []RotateInv
<1>1. Init => CopyInv
  BY DEF Init, CopyInv
<1>2. QED
  BY <1>1, RotateStep, VaultTypeCorrect, PTL DEF Spec, RotateInv

-----------------------------------------------------------------------------
\* A vault whose ciphertexts were made with its salt.
Salted(v) == \A k \in DOMAIN v.secrets : v.secrets[k].key.salt = v.salt

SaltInv == Salted(disk) /\ \A c \in Clients : Salted(mem[c])

\* What a step makes of the copy of the command that takes it.
LEMMA CopyIsSalted ==
    ASSUME RotateInv, SaltInv, NEW c \in Clients,
           Begin(c) \/ Step(c) \/ Crash(c) \/ WriteFails(c)
    PROVE  Salted(mem'[c])
<1> USE DEF RotateInv, TypeOK, SaltInv
<1>1. CASE UNCHANGED mem
  BY <1>1
<1>2. CASE Load(c)
  BY <1>2 DEF Load, Loaded, NewVault, Salted
<1>3. ASSUME NEW s, mem' = [mem EXCEPT ![c].secrets = s],
             \A k \in DOMAIN s : s[k].key.salt = mem[c].salt
      PROVE  Salted(mem'[c])
  <2>1. mem[c].salt \in Nat /\ mem[c] = [salt |-> mem[c].salt, secrets |-> mem[c].secrets]
    BY DEF IsVault
  <2>2. mem'[c] = [salt |-> mem[c].salt, secrets |-> s]
    BY <1>3, <2>1
  <2> QED BY <1>3, <2>2 DEF Salted
<1>4. CASE Store(c)
  <2>1. ekey[c].salt = mem[c].salt
    BY <1>4 DEF Store, CopyInv
  <2>2. \A k \in DOMAIN With(mem[c].secrets, arg[c], Encrypt(val[c], ekey[c])) :
            With(mem[c].secrets, arg[c], Encrypt(val[c], ekey[c]))[k].key.salt = mem[c].salt
    BY <2>1 DEF With, Encrypt, Salted
  <2> QED BY <1>3, <1>4, <2>2 DEF Store
<1>5. CASE mem' = [mem EXCEPT ![c].secrets = Without(mem[c].secrets, arg[c])]
  <2>1. \A k \in DOMAIN Without(mem[c].secrets, arg[c]) :
            Without(mem[c].secrets, arg[c])[k].key.salt = mem[c].salt
    BY DEF Without, Salted
  <2> QED BY <1>3, <1>5, <2>1
<1>6. CASE Rotate(c) /\ pc'[c] # "idle"
  <2>1. Under(mem'[c].secrets, [password |-> newpw[c], salt |-> mem'[c].salt])
    BY <1>6, RotatedCopy
  <2>2. \A k \in DOMAIN mem'[c].secrets :
            mem'[c].secrets[k].key = [password |-> newpw[c], salt |-> mem'[c].salt]
    BY <2>1 DEF Under
  <2> QED BY <2>2 DEF Salted
<1>7. CASE Rotate(c) /\ pc'[c] = "idle"
  <2>1. ASSUME AllDecrypt(mem[c].secrets, ekey[c]) PROVE FALSE
    <3>1. pc' = [pc EXCEPT ![c] = "save"]
      BY <1>7, <2>1 DEF Rotate, Goto
    <3> QED BY <1>7, <3>1
  <2>2. UNCHANGED mem
    BY <1>7, <2>1 DEF Rotate
  <2> QED BY <1>1, <2>2
<1> QED
  BY <1>1, <1>2, <1>4, <1>5, <1>6, <1>7
  DEF Begin, Step, Delete, Get, Unlock, Truncate, Write, Crash, WriteFails

LEMMA SaltStep == RotateInv /\ SaltInv /\ [Next]_vars => SaltInv'
<1> SUFFICES ASSUME RotateInv, SaltInv, [Next]_vars PROVE SaltInv'
  OBVIOUS
<1>1. ASSUME NEW c \in Clients, Begin(c) \/ Step(c) \/ Crash(c) \/ WriteFails(c)
      PROVE  SaltInv'
  <2>1. disk' \in {disk, mem[c]}
    BY <1>1 DEF Begin, Step, Load, Store, Delete, Get, Unlock, Rotate, Truncate, Write, Written,
                Crash, WriteFails, fileVars
  <2> QED BY <1>1, <2>1, CopyIsSalted, OthersKeep DEF SaltInv, RotateInv, Salted
<1>2. CASE UNCHANGED vars
  BY <1>2 DEF vars, fileVars, clientVars, SaltInv, Salted
<1> QED BY <1>1, <1>2 DEF Next

\* However commands race and crash and whatever passwords are typed: what a
\* file that can be parsed holds was made with the salt of that file.
THEOREM FileHasOneSalt == Spec => []OneSalt
<1>1. Init => SaltInv
  BY DEF Init, SaltInv, Salted, NewVault
<1>2. SaltInv => OneSalt
  BY DEF SaltInv, Salted, OneSalt
<1> QED BY <1>1, <1>2, SaltStep, RotateInvariant, PTL DEF Spec

-----------------------------------------------------------------------------
\* The password a command saves the vault under.
SavedUnder(c) == IF op[c] = "rotate" THEN newpw[c] ELSE pw[c]

\* One command at a time, with the right password: its copy is under one
\* key at every point, and so is the file.
SerialInv ==
    /\ \A c, d \in Clients : c # d => pc[c] = "idle" \/ pc[d] = "idle"
    /\ \A c \in Clients : pc[c] # "idle" => pw[c] = password
    /\ \A c \in Clients : pc[c] = "loaded" => Under(mem[c].secrets, ekey[c])
    /\ \A c \in Clients : pc[c] \in {"save", "write"} =>
          Under(mem[c].secrets, [password |-> SavedUnder(c), salt |-> mem[c].salt])
    /\ file = "ok" => Under(disk.secrets, CurrentKey)

Guarded == disturbed = {} => SerialInv

KeyInv == RotateInv /\ Guarded

\* Loading puts the copy under the key of the vault's password.
LEMMA LoadSerial ==
    ASSUME KeyInv, SerialInv, NEW c \in Clients, Load(c)
    PROVE  SerialInv'
<1> USE DEF KeyInv, RotateInv, TypeOK, SerialInv
<1>1. /\ UNCHANGED <<file, disk, password, op, pw, newpw>>
      /\ pc[c] = "prompted" /\ pw[c] = password
  BY DEF Load, inputs
<1>2. /\ \A d \in Clients : d # c => /\ pc'[d] = pc[d] /\ mem'[d] = mem[d]
                                    /\ pc[d] = "idle" /\ ekey'[d] = ekey[d]
  BY <1>1, OthersKeep DEF Step
<1>3. pc'[c] \in {"loaded", "idle"}
  BY DEF Load, Loaded, Finish, Goto
<1>4. pc'[c] = "loaded" => Under(mem'[c].secrets, ekey'[c])
  <2>1. CASE file = "missing"
    <3>1. mem'[c] = NewVault(salts + 1)
      BY <2>1 DEF Load, Loaded
    <3>2. QED
      BY <3>1 DEF NewVault, Under
  <2>2. CASE file = "ok"
    <3>1. mem'[c] = disk /\ ekey'[c] = CurrentKey
      BY <1>1, <2>2 DEF Load, Loaded, UnlockSalt, CurrentKey
    <3>2. QED
      BY <2>2, <3>1
  <2>3. CASE file \in {"torn", "mangled"}
    BY <2>3 DEF Load, Finish, Goto
  <2>4. QED
    BY <2>1, <2>2, <2>3
<1>5. CurrentKey' = CurrentKey
  BY <1>1 DEF CurrentKey
<1>6. file' = "ok" => Under(disk'.secrets, CurrentKey')
  BY <1>1, <1>5 DEF Under
<1>7. QED
  BY <1>1, <1>2, <1>3, <1>4, <1>6

\* A copy edited under its key stays under it.
LEMMA EditSerial ==
    ASSUME KeyInv, SerialInv, NEW c \in Clients,
           Store(c) \/ Delete(c) \/ Get(c) \/ Unlock(c)
    PROVE  SerialInv'
<1> USE DEF KeyInv, RotateInv, TypeOK, SerialInv
<1>1. /\ UNCHANGED <<file, disk, password, op, pw, newpw, ekey>>
      /\ pc[c] = "loaded" /\ op[c] # "rotate" /\ pw[c] = password
      /\ pc'[c] \in {"save", "idle"}
  BY DEF Store, Delete, Get, Unlock, fileVars, inputs, Finish, Goto
<1>2. \A d \in Clients : d # c => /\ pc'[d] = pc[d] /\ mem'[d] = mem[d]
                                 /\ pc[d] = "idle"
  BY <1>1, OthersKeep DEF Step
<1>3. ekey[c] = [password |-> pw[c], salt |-> mem[c].salt]
  BY <1>1 DEF CopyInv
<1>4. pc'[c] = "save" => /\ mem'[c].salt = mem[c].salt
                         /\ Under(mem'[c].secrets, ekey[c])
  <2>1. Under(mem[c].secrets, ekey[c]) /\ IsVault(mem[c])
    BY <1>1
  <2>2. ASSUME NEW s, Under(s, ekey[c]), mem' = [mem EXCEPT ![c].secrets = s]
        PROVE  mem'[c].salt = mem[c].salt /\ Under(mem'[c].secrets, ekey[c])
    <3>1. mem'[c] = [mem[c] EXCEPT !.secrets = s]
      BY <2>2
    <3>2. mem[c] = [salt |-> mem[c].salt, secrets |-> mem[c].secrets]
      BY <2>1 DEF IsVault
    <3>3. mem'[c].salt = mem[c].salt /\ mem'[c].secrets = s
      BY <3>1, <3>2
    <3>4. QED
      BY <2>2, <3>3
  <2>3. Under(With(mem[c].secrets, arg[c], Encrypt(val[c], ekey[c])), ekey[c])
    BY <2>1 DEF Under, With, Encrypt
  <2>4. Under(Without(mem[c].secrets, arg[c]), ekey[c])
    BY <2>1 DEF Under, Without
  <2>5. CASE Store(c)
    BY <2>2, <2>3, <2>5 DEF Store
  <2>6. CASE Delete(c)
    BY <2>2, <2>4, <2>6 DEF Delete, Finish, Goto
  <2>7. CASE Get(c) \/ Unlock(c)
    BY <2>7 DEF Get, Unlock, Finish, Goto
  <2>8. QED
    BY <2>5, <2>6, <2>7
<1>5. CurrentKey' = CurrentKey
  BY <1>1 DEF CurrentKey
<1>6. file' = "ok" => Under(disk'.secrets, CurrentKey')
  BY <1>1, <1>5 DEF Under
<1>7. \A d \in Clients : SavedUnder(d)' = SavedUnder(d)
  BY <1>1 DEF SavedUnder
<1>8. pc'[c] = "save" =>
        Under(mem'[c].secrets, [password |-> SavedUnder(c)', salt |-> mem'[c].salt])
  BY <1>1, <1>3, <1>4 DEF SavedUnder
<1>9. QED
  BY <1>1, <1>2, <1>6, <1>8

LEMMA RotateSerial ==
    ASSUME KeyInv, SerialInv, NEW c \in Clients, Rotate(c)
    PROVE  SerialInv'
<1> USE DEF KeyInv, RotateInv, TypeOK, SerialInv
<1>1. /\ UNCHANGED <<file, disk, password, op, pw, newpw>>
      /\ pc[c] = "loaded" /\ op[c] = "rotate" /\ pw[c] = password
      /\ pc'[c] \in {"save", "idle"}
  BY DEF Rotate, inputs, Finish, Goto
<1>2. \A d \in Clients : d # c => pc'[d] = pc[d] /\ pc[d] = "idle"
  BY <1>1, OthersKeep DEF Step
<1>3. pc'[c] = "save" =>
        Under(mem'[c].secrets, [password |-> newpw[c], salt |-> mem'[c].salt])
  BY RotatedCopy
<1>4. pc'[c] = "save" =>
        Under(mem'[c].secrets, [password |-> SavedUnder(c)', salt |-> mem'[c].salt])
  BY <1>1, <1>3 DEF SavedUnder
<1>5. CurrentKey' = CurrentKey
  BY <1>1 DEF CurrentKey
<1>6. file' = "ok" => Under(disk'.secrets, CurrentKey')
  BY <1>1, <1>5 DEF Under
<1>7. QED
  BY <1>1, <1>2, <1>4, <1>6

LEMMA SaveSerial ==
    ASSUME KeyInv, SerialInv, NEW c \in Clients, Truncate(c) \/ Write(c)
    PROVE  SerialInv'
<1> USE DEF KeyInv, RotateInv, TypeOK, SerialInv
<1>1. /\ UNCHANGED <<op, pw, newpw, mem, ekey>>
      /\ pc[c] \in {"save", "write"} /\ pw[c] = password
  BY DEF Truncate, Write, inputs
<1>2. \A d \in Clients : d # c => pc'[d] = pc[d] /\ pc[d] = "idle"
  BY <1>1, OthersKeep DEF Step
<1>3. \A d \in Clients : SavedUnder(d)' = SavedUnder(d)
  BY <1>1 DEF SavedUnder
<1>4. CASE Truncate(c)
  <2>1. pc'[c] = "write" /\ file' = "torn" /\ password' = password
    BY <1>4 DEF Truncate, Goto
  <2>2. Under(mem'[c].secrets, [password |-> SavedUnder(c)', salt |-> mem'[c].salt])
    BY <1>1, <1>3
  <2>3. QED
    BY <1>1, <1>2, <2>1, <2>2
<1>5. CASE Write(c)
  <2>1. pc'[c] = "idle" /\ disk' = mem[c] /\ password' = SavedUnder(c)
    BY <1>1, <1>5 DEF Write, Written, Finish, Goto, SavedUnder
  <2>2. Under(disk'.secrets, CurrentKey')
    BY <1>1, <2>1 DEF CurrentKey
  <2>3. QED
    BY <1>1, <1>2, <2>1, <2>2
<1>6. QED
  BY <1>4, <1>5

LEMMA BeginSerial ==
    ASSUME KeyInv, SerialInv, disturbed' = {}, NEW c \in Clients, Begin(c)
    PROVE  SerialInv'
<1> USE DEF KeyInv, RotateInv, TypeOK, SerialInv
<1>1. /\ UNCHANGED <<file, disk, password, mem, ekey>>
      /\ \A d \in Clients : pc[d] = "idle"
      /\ pc' = [pc EXCEPT ![c] = "prompted"]
      /\ pw' = [pw EXCEPT ![c] = password]
  BY DEF Begin, Goto, Active, fileVars
<1>2. file' = "ok" => Under(disk'.secrets, CurrentKey')
  <2>1. CurrentKey' = CurrentKey
    BY <1>1 DEF CurrentKey
  <2>2. QED
    BY <1>1, <2>1 DEF Under
<1>3. \A d \in Clients : pc'[d] \in {"idle", "prompted"}
  BY <1>1
<1>4. QED
  BY <1>1, <1>2, <1>3

LEMMA KeyStep == KeyInv /\ [Next]_vars => Guarded'
<1> SUFFICES ASSUME KeyInv, [Next]_vars, disturbed' = {} PROVE SerialInv'
  BY DEF Guarded
<1>1. ASSUME NEW c \in Clients, Begin(c) \/ Step(c) \/ Crash(c) \/ WriteFails(c)
      PROVE  SerialInv'
  <2>1. ~Crash(c) /\ ~WriteFails(c)
    BY DEF Crash, WriteFails
  <2>2. disturbed = {}
    BY <1>1, <2>1 DEF Begin, Step, Load, Store, Delete, Get, Unlock, Rotate, Truncate,
                  Write
  <2>3. SerialInv
    BY <2>2 DEF KeyInv, Guarded
  <2>4. QED
    BY <1>1, <2>1, <2>3, BeginSerial, LoadSerial, EditSerial, RotateSerial,
       SaveSerial DEF Step
<1>2. CASE UNCHANGED vars
  <2>1. /\ UNCHANGED <<file, disk, password, pc, op, pw, newpw, mem, ekey, disturbed>>
    BY <1>2 DEF vars, fileVars, clientVars, inputs
  <2>2. SerialInv
    BY <2>1 DEF KeyInv, Guarded
  <2>3. QED
    BY <2>1, <2>2 DEF SerialInv, Under, CurrentKey, SavedUnder
<1>3. QED
  BY <1>1, <1>2 DEF Next

\* When commands run one after the other and nobody mistypes, the whole file
\* opens with the vault's password, across any number of rotations: the salt
\* and the ciphertexts never get out of step.
THEOREM FileHasOneKey == Spec => []OneKey
<1>1. Init => Guarded
  BY DEF Init, Guarded, SerialInv
<1>2. KeyInv => OneKey
  BY DEF KeyInv, Guarded, SerialInv, OneKey
<1>3. QED
  BY <1>1, <1>2, KeyStep, RotateInvariant, PTL DEF Spec, KeyInv

-----------------------------------------------------------------------------
\* A vault that says what the saved commands have left.
Says(v, left) ==
    v.secrets = [k \in DOMAIN left |->
        Encrypt(left[k].value, [password |-> left[k].password, salt |-> v.salt])]

\* One command at a time, with whatever passwords.
LedgerInv ==
    /\ \A c, d \in Clients : c # d => pc[c] = "idle" \/ pc[d] = "idle"
    /\ Says(disk, kept)
    /\ \A c \in Clients :
          /\ pc[c] = "loaded" => Says(mem[c], kept)
          /\ pc[c] \in {"save", "write"} => Says(mem[c], Settled(c))

\* A file that is missing has never been written.
NeverWritten == file = "missing" => disk = NewVault(0)

\* The file is torn while a command saves, and after one that was cut short.
FileInv ==
    /\ file # "mangled"
    /\ \A c \in Clients : pc[c] = "write" => file = "torn"
    /\ ("crash" \notin disturbed /\ file = "torn") => \E c \in Clients : pc[c] = "write"

HistInv == RotateInv /\ NeverWritten /\ ("race" \notin disturbed => LedgerInv /\ FileInv)

\* Whoever is not at work has nothing to say.
LEMMA LedgerStays ==
    ASSUME LedgerInv, UNCHANGED <<disk, kept, op, arg, val, pw, newpw>>,
           NEW c \in Clients, \A d \in Clients \ {c} : pc[d] = "idle" /\ pc'[d] = "idle",
           pc'[c] = "loaded" => Says(mem'[c], kept),
           pc'[c] \in {"save", "write"} => Says(mem'[c], Settled(c))
    PROVE  LedgerInv'
<1>1. Settled(c)' = Settled(c)
  BY DEF Settled
<1>2. Says(disk, kept)'
  BY DEF LedgerInv, Says
<1>3. \A d \in Clients : d # c => pc'[d] = "idle"
  OBVIOUS
<1>4. /\ pc'[c] = "loaded" => Says(mem[c], kept)'
      /\ pc'[c] \in {"save", "write"} => Says(mem[c], Settled(c))'
  BY <1>1 DEF Says
<1> QED BY <1>2, <1>3, <1>4 DEF LedgerInv

\* What a command does to its copy is what it will have done to the secrets.
LEMMA EditSays ==
    ASSUME HistInv, LedgerInv, NEW c \in Clients,
           Store(c) \/ Delete(c) \/ Rotate(c), pc'[c] = "save"
    PROVE  Says(mem'[c], Settled(c))
<1> USE DEF HistInv, RotateInv, TypeOK
<1>1. pc[c] = "loaded" /\ Says(mem[c], kept)
  BY DEF Store, Delete, Rotate, LedgerInv
<1>2. ekey[c] = [password |-> pw[c], salt |-> mem[c].salt]
  BY <1>1 DEF CopyInv
<1>3. ASSUME NEW s, mem' = [mem EXCEPT ![c].secrets = s]
      PROVE  mem'[c].secrets = s /\ mem'[c].salt = mem[c].salt
  <2>1. mem'[c] = [mem[c] EXCEPT !.secrets = s]
    BY <1>3
  <2>2. mem[c] = [salt |-> mem[c].salt, secrets |-> mem[c].secrets]
    BY DEF IsVault
  <2> QED BY <2>1, <2>2
<1>4. CASE Store(c)
  <2>1. Settled(c) = With(kept, arg[c], [value |-> val[c], password |-> pw[c]])
    BY <1>4 DEF Store, Settled
  <2>2. /\ mem'[c].secrets = With(mem[c].secrets, arg[c], Encrypt(val[c], ekey[c]))
        /\ mem'[c].salt = mem[c].salt
    BY <1>3, <1>4 DEF Store
  <2> QED BY <1>1, <1>2, <2>1, <2>2 DEF Says, With, Encrypt
<1>5. CASE Delete(c)
  <2>1. Settled(c) = Without(kept, arg[c])
    BY <1>5 DEF Delete, Settled
  <2>2. mem' = [mem EXCEPT ![c].secrets = Without(mem[c].secrets, arg[c])]
    BY <1>5 DEF Delete, Finish, Goto
  <2>3. /\ mem'[c].secrets = Without(mem[c].secrets, arg[c])
        /\ mem'[c].salt = mem[c].salt
    BY <1>3, <2>2
  <2> QED BY <1>1, <2>1, <2>3 DEF Says, Without, Encrypt
<1>6. CASE Rotate(c)
  <2>1. Settled(c) = [k \in DOMAIN kept |-> [value |-> kept[k].value, password |-> newpw[c]]]
    BY <1>6 DEF Rotate, Settled
  <2> DEFINE key == [password |-> newpw[c], salt |-> salts + 1]
  <2>2. mem'[c] = [salt |-> salts + 1, secrets |-> Reencrypted(mem[c].secrets, key)]
    BY <1>6 DEF Rotate, Finish, Goto
  <2>3. mem'[c].salt = salts + 1 /\ mem'[c].secrets = Reencrypted(mem[c].secrets, key)
    BY <2>2
  <2> QED BY <1>1, <2>1, <2>3 DEF Says, Reencrypted, Encrypt
<1> QED BY <1>4, <1>5, <1>6

LEMMA HistStep == HistInv /\ RotateInv' /\ [Next]_vars => HistInv'
<1> SUFFICES ASSUME HistInv, RotateInv', [Next]_vars PROVE HistInv'
  OBVIOUS
<1> USE DEF HistInv, RotateInv, TypeOK
<1>1. NeverWritten'
  BY DEF Next, Begin, Step, Load, Store, Delete, Get, Unlock, Rotate, Truncate, Write, Landed,
         Crash, WriteFails, NeverWritten, vars, fileVars
<1>2. ASSUME "race" \notin disturbed', NEW c \in Clients,
             Begin(c) \/ Step(c) \/ Crash(c) \/ WriteFails(c)
      PROVE  LedgerInv' /\ FileInv'
  <2>1. "race" \notin disturbed
    BY <1>2 DEF Begin, Step, Load, Store, Delete, Get, Unlock, Rotate, Truncate, Write, Crash,
                WriteFails
  <2>2. LedgerInv
    BY <2>1
  <2>3. FileInv
    BY <2>1
  <2>4. \A d \in Clients \ {c} : pc[d] = "idle" /\ pc'[d] = "idle"
    <3>1. \A d \in Clients \ {c} : pc[d] = "idle"
      <4>1. CASE Begin(c)
        BY <1>2, <4>1 DEF Begin, Active
      <4>2. CASE Step(c) \/ Crash(c) \/ WriteFails(c)
        BY <2>2, <4>2 DEF LedgerInv, Step, Load, Store, Delete, Get, Unlock, Rotate, Truncate,
                          Write, Crash, WriteFails
      <4> QED BY <1>2, <4>1, <4>2
    <3> QED BY <1>2, <3>1, OthersKeep
  <2>5. ASSUME Begin(c) PROVE LedgerInv'
    <3>1. \A d \in Clients : pc'[d] \in {"idle", "prompted"}
      BY <2>4, <2>5 DEF Begin, Goto
    <3>2. UNCHANGED <<disk, kept>>
      BY <2>5 DEF Begin, fileVars
    <3> QED BY <2>2, <2>4, <3>1, <3>2 DEF LedgerInv, Says
  <2>6. ASSUME Load(c) PROVE LedgerInv'
    <3>1. UNCHANGED <<disk, kept, op, arg, val, pw, newpw>>
      BY <2>6 DEF Load, inputs
    <3>2. pc'[c] = "loaded" => mem'[c] = disk \/ (file = "missing" /\ mem'[c] = NewVault(salts + 1))
      BY <2>6 DEF Load, Loaded, Finish, Goto
    <3>3. file = "missing" => DOMAIN kept = {}
      <4> SUFFICES ASSUME file = "missing" PROVE DOMAIN kept = {}
        OBVIOUS
      <4>1. disk.secrets = [k \in {} |-> k] /\ Says(disk, kept)
        BY <2>2 DEF NeverWritten, NewVault, LedgerInv
      <4> QED BY <4>1 DEF Says
    <3>4. DOMAIN kept = {} => Says(NewVault(salts + 1), kept)
      BY DEF Says, NewVault
    <3>5. Says(disk, kept)
      BY <2>2 DEF LedgerInv
    <3>6. pc'[c] = "loaded" => Says(mem'[c], kept)
      BY <3>2, <3>3, <3>4, <3>5
    <3>7. pc'[c] \in {"loaded", "idle"}
      BY <2>6 DEF Load, Loaded, Finish, Goto
    <3> QED BY <2>2, <2>4, <3>1, <3>6, <3>7, LedgerStays
  <2>7. ASSUME Store(c) \/ Delete(c) \/ Rotate(c) PROVE LedgerInv'
    <3>1. UNCHANGED <<disk, kept, op, arg, val, pw, newpw>>
      BY <2>7 DEF Store, Delete, Rotate, fileVars, inputs
    <3>2. pc'[c] \in {"save", "idle"}
      BY <2>7 DEF Store, Delete, Rotate, Finish, Goto
    <3>3. pc'[c] = "save" => Says(mem'[c], Settled(c))
      BY <2>2, <2>7, EditSays
    <3> QED BY <2>2, <2>4, <3>1, <3>2, <3>3, LedgerStays
  <2>8. ASSUME Get(c) \/ Unlock(c) PROVE LedgerInv'
    <3>1. UNCHANGED <<disk, kept, op, arg, val, pw, newpw>> /\ pc'[c] = "idle"
      BY <2>8 DEF Get, Unlock, Finish, Goto, fileVars, inputs
    <3> QED BY <2>2, <2>4, <3>1, LedgerStays
  <2>9. ASSUME Truncate(c) PROVE LedgerInv'
    <3>1. /\ UNCHANGED <<disk, kept, op, arg, val, pw, newpw, mem>>
          /\ pc[c] = "save" /\ pc'[c] = "write"
      BY <2>9 DEF Truncate, Goto, inputs
    <3>2. Says(mem'[c], Settled(c))
      BY <2>2, <3>1 DEF LedgerInv
    <3> QED BY <2>2, <2>4, <3>1, <3>2, LedgerStays
  <2>10. ASSUME Write(c) PROVE LedgerInv'
    <3>1. disk' = mem[c] /\ kept' = Settled(c) /\ pc[c] = "write" /\ pc'[c] = "idle"
      BY <2>10 DEF Write, Written, Finish, Goto
    <3>2. Says(disk', kept')
      BY <2>2, <3>1 DEF LedgerInv
    <3> QED BY <2>4, <3>1, <3>2 DEF LedgerInv, Says
  <2>11. ASSUME Crash(c) \/ WriteFails(c) PROVE LedgerInv'
    <3>1. UNCHANGED <<disk, kept, op, arg, val, pw, newpw>> /\ pc'[c] = "idle"
      BY <2>11 DEF Crash, WriteFails, Finish, Goto, fileVars, inputs
    <3> QED BY <2>2, <2>4, <3>1, LedgerStays
  <2>12. LedgerInv'
    BY <1>2, <2>5, <2>6, <2>7, <2>8, <2>9, <2>10, <2>11 DEF Step
  <2>13. FileInv'
    <3>1. CASE Crash(c) \/ WriteFails(c)
      BY <2>3, <2>4, <3>1 DEF FileInv, Crash, WriteFails, Finish, Goto, fileVars
    <3>2. CASE Truncate(c)
      BY <2>3, <2>4, <3>2 DEF FileInv, Truncate, Goto
    <3>3. CASE Write(c)
      BY <2>3, <2>4, <3>3 DEF FileInv, Write, Landed, Finish, Goto
    <3>4. CASE Begin(c)
      <4>1. /\ file' = file /\ pc[c] = "idle" /\ pc'[c] = "prompted"
            /\ "crash" \notin disturbed' => "crash" \notin disturbed
        BY <3>4 DEF Begin, Goto, fileVars
      <4> QED BY <2>3, <2>4, <4>1 DEF FileInv
    <3>5. CASE Load(c) \/ Store(c) \/ Delete(c) \/ Get(c) \/ Unlock(c) \/ Rotate(c)
      <4>1. /\ UNCHANGED <<file, disturbed>>
            /\ pc[c] # "write" /\ pc'[c] # "write"
        BY <3>5 DEF Load, Loaded, Store, Delete, Get, Unlock, Rotate, Finish, Goto, fileVars
      <4> QED BY <2>3, <2>4, <4>1 DEF FileInv
    <3> QED BY <1>2, <3>1, <3>2, <3>3, <3>4, <3>5 DEF Step
  <2> QED BY <2>12, <2>13
<1>3. ASSUME "race" \notin disturbed', UNCHANGED vars
      PROVE  LedgerInv' /\ FileInv'
  <2>1. LedgerInv /\ FileInv
    BY <1>3 DEF vars, clientVars
  <2>2. UNCHANGED <<file, disturbed, disk, kept, pc, op, arg, val, pw, newpw, mem>>
    BY <1>3 DEF vars, fileVars, clientVars, inputs
  <2>3. ASSUME NEW d \in Clients PROVE Settled(d)' = Settled(d)
    BY <2>2 DEF Settled
  <2> QED BY <2>1, <2>2, <2>3 DEF LedgerInv, FileInv, Says
<1>4. "race" \notin disturbed' => LedgerInv' /\ FileInv'
  BY <1>2, <1>3 DEF Next
<1> QED BY <1>1, <1>4

\* One command at a time, with whatever passwords: the file holds what was
\* stored and not deleted, through any number of rotations, as long as it can
\* be parsed; and it can unless one was cut short.
THEOREM NothingStoredIsLost == Spec => []NothingIsLost
<1>1. Init => NeverWritten /\ LedgerInv /\ FileInv
  BY DEF Init, NeverWritten, LedgerInv, FileInv, Says, NewVault
<1>2. HistInv => NothingIsLost
  <2> SUFFICES ASSUME HistInv, "race" \notin disturbed
               PROVE  /\ Says(disk, kept)
                      /\ ("crash" \notin disturbed /\ Active = {} /\ DOMAIN kept # {})
                            => file = "ok"
    BY DEF Says, NothingIsLost
  <2>1. Says(disk, kept)
    BY DEF HistInv, LedgerInv
  <2>2. ASSUME "crash" \notin disturbed, Active = {}, DOMAIN kept # {}
        PROVE  file = "ok"
    <3>1. file \notin {"mangled", "torn"}
      BY <2>2 DEF HistInv, FileInv, Active
    <3>2. file # "missing"
      <4>1. file = "missing" => disk.secrets = [k \in {} |-> k]
        BY DEF HistInv, NeverWritten, NewVault
      <4> QED BY <2>1, <2>2, <4>1 DEF Says
    <3> QED BY <3>1, <3>2 DEF HistInv, RotateInv, TypeOK
  <2> QED BY <2>1, <2>2
<1> QED BY <1>1, <1>2, HistStep, RotateInvariant, PTL DEF Spec, HistInv

-----------------------------------------------------------------------------
(***************************************************************************)
(* The vault implements AtomicFile, the refinement MCVault checks.  It     *)
(* rests on the one key, and on what the file and the copies of the        *)
(* commands hold while commands run one at a time.                         *)
(***************************************************************************)
\* What a file of secrets says, with the encryption taken off.
ValuesOf(secrets) == [k \in DOMAIN secrets |-> secrets[k].value]

\* Editing ciphertexts edits the values; re-encrypting leaves them.
LEMMA ValuesWith ==
    ASSUME NEW s, NEW k, NEW v, NEW key
    PROVE  ValuesOf(With(s, k, Encrypt(v, key))) = With(ValuesOf(s), k, v)
BY DEF ValuesOf, With, Encrypt

LEMMA ValuesWithout ==
    ASSUME NEW s, NEW k
    PROVE  ValuesOf(Without(s, k)) = Without(ValuesOf(s), k)
BY DEF ValuesOf, Without

LEMMA ValuesReencrypted ==
    ASSUME NEW s, NEW key
    PROVE  ValuesOf(Reencrypted(s, key)) = ValuesOf(s)
BY DEF ValuesOf, Reencrypted, Encrypt

\* Deleting what is not there changes nothing.
LEMMA WithoutNothing ==
    ASSUME NEW s, NEW k, k \notin DOMAIN s
    PROVE  Without(ValuesOf(s), k) = ValuesOf(s)
<1>1. DOMAIN ValuesOf(s) \ {k} = DOMAIN s
  BY DEF ValuesOf
<1> QED BY <1>1 DEF Without, ValuesOf

LEMMA OpenedIsAll ==
    ASSUME Under(disk.secrets, CurrentKey)
    PROVE  Opened = ValuesOf(disk.secrets)
<1>1. {x \in DOMAIN disk.secrets : CanDecrypt(disk.secrets[x], CurrentKey)}
          = DOMAIN disk.secrets
  BY DEF Under, CanDecrypt
<1> QED BY <1>1 DEF Opened, ValuesOf

-----------------------------------------------------------------------------
\* Where a command can be, whatever disturbs it.
Places ==
    /\ \A c \in Clients : pc[c] # "idle" => answer[c] = "none"
    /\ \A c \in Clients : pc[c] \in {"save", "write"} => op[c] \in {"set", "delete", "rotate"}
    /\ file = "missing" => disk = NewVault(0)

\* The file is torn while it is written, and whole otherwise.
FileIsWhole ==
    /\ file # "mangled"
    /\ file = "torn" => \E c \in Clients : pc[c] = "write"
    /\ \A c \in Clients : pc[c] = "write" => file = "torn"

\* A command's copy says what the file says, or will say once it is saved.
CopiesFit ==
    \A c \in Clients :
        /\ pc[c] = "loaded" => mem[c].secrets = disk.secrets
        /\ pc[c] \in {"save", "write"} =>
              /\ ValuesOf(mem[c].secrets) = Changed(Command(c), ValuesOf(disk.secrets))
              /\ op[c] = "delete" => arg[c] \in DOMAIN disk.secrets

Calm == Under(disk.secrets, CurrentKey) /\ FileIsWhole /\ CopiesFit

PInv == KeyInv /\ Places /\ (disturbed = {} => Calm)

\* The rest of what a step of one command leaves to the others.
LEMMA OthersAnswer ==
    ASSUME TypeOK, NEW c \in Clients,
           Begin(c) \/ Step(c) \/ Crash(c) \/ WriteFails(c),
           NEW d \in Clients, d # c
    PROVE  answer'[d] = answer[d] /\ arg'[d] = arg[d] /\ val'[d] = val[d]
BY DEF TypeOK, Begin, Step, Load, Loaded, Store, Delete, Get, Unlock, Rotate, Truncate,
       Write, Crash, WriteFails, Finish, inputs

LEMMA PlacesStep == TypeOK /\ Places /\ [Next]_vars => Places'
<1> SUFFICES ASSUME TypeOK, Places, [Next]_vars PROVE Places'
  OBVIOUS
<1> USE DEF TypeOK, Places
<1>1. ASSUME NEW c \in Clients, Begin(c) \/ Step(c) \/ Crash(c) \/ WriteFails(c)
      PROVE  Places'
  <2>1. \A d \in Clients : d # c => /\ pc'[d] = pc[d] /\ op'[d] = op[d]
                                   /\ answer'[d] = answer[d]
    BY <1>1, OthersKeep, OthersAnswer
  <2>2. CASE Begin(c)
    BY <2>1, <2>2 DEF Begin, Goto, fileVars
  <2>3. CASE Load(c)
    BY <2>1, <2>3 DEF Load, Loaded, Finish, Goto, inputs
  <2>4. CASE Store(c) \/ Delete(c) \/ Get(c) \/ Unlock(c)
    BY <2>1, <2>4 DEF Store, Delete, Get, Unlock, Finish, Goto, inputs, fileVars
  <2>5. CASE Rotate(c)
    BY <2>1, <2>5 DEF Rotate, Finish, Goto, inputs
  <2>6. CASE Truncate(c)
    BY <2>1, <2>6 DEF Truncate, Goto, inputs
  <2>7. CASE Write(c)
    BY <2>1, <2>7 DEF Write, Landed, Finish, Goto, inputs
  <2>8. CASE Crash(c) \/ WriteFails(c)
    BY <2>1, <2>8 DEF Crash, WriteFails, Finish, Goto, inputs, fileVars
  <2> QED BY <1>1, <2>2, <2>3, <2>4, <2>5, <2>6, <2>7, <2>8 DEF Step
<1>2. CASE UNCHANGED vars
  BY <1>2 DEF vars, fileVars, clientVars, inputs
<1> QED BY <1>1, <1>2 DEF Next

\* One lemma per kind of step, for what a step does to Calm.
LEMMA BeginCalm ==
    ASSUME PInv, NEW c \in Clients, Begin(c), disturbed' = {}
    PROVE  Calm'
<1> USE DEF PInv, KeyInv, RotateInv, TypeOK
<1>1. /\ UNCHANGED <<file, disk, password, mem>> /\ disturbed = {}
      /\ \A d \in Clients : pc[d] = "idle"
      /\ pc' = [pc EXCEPT ![c] = "prompted"]
  BY DEF Begin, Goto, Active, fileVars
<1>2. CurrentKey' = CurrentKey
  BY <1>1 DEF CurrentKey
<1>3. \A d \in Clients : pc'[d] \in {"idle", "prompted"}
  BY <1>1
<1> QED BY <1>1, <1>2, <1>3 DEF Calm, Under, FileIsWhole, CopiesFit

LEMMA LoadCalm ==
    ASSUME PInv, Calm, SerialInv, NEW c \in Clients, Load(c)
    PROVE  Calm'
<1> USE DEF PInv, KeyInv, RotateInv, TypeOK
<1>1. UNCHANGED <<file, disk, password>> /\ pc[c] = "prompted"
  BY DEF Load
<1>2. \A d \in Clients : d # c => pc'[d] = "idle" /\ pc[d] = "idle"
  BY <1>1, OthersKeep DEF Step, SerialInv
<1>3. CurrentKey' = CurrentKey
  BY <1>1 DEF CurrentKey
<1>4. pc'[c] \in {"loaded", "idle"}
  BY DEF Load, Loaded, Finish, Goto
<1>5. pc'[c] = "loaded" => mem'[c].secrets = disk.secrets
  BY DEF Load, Loaded, Finish, Goto, Places, NewVault
<1> QED BY <1>1, <1>2, <1>3, <1>4, <1>5 DEF Calm, Under, FileIsWhole, CopiesFit

LEMMA EditCalm ==
    ASSUME PInv, Calm, SerialInv, NEW c \in Clients,
           Store(c) \/ Delete(c) \/ Get(c) \/ Unlock(c) \/ Rotate(c)
    PROVE  Calm'
<1> USE DEF PInv, KeyInv, RotateInv, TypeOK
<1>1. /\ UNCHANGED <<file, disk, password, op, arg, val>> /\ pc[c] = "loaded"
      /\ pc'[c] \in {"save", "idle"}
  BY DEF Store, Delete, Get, Unlock, Rotate, fileVars, inputs, Finish, Goto
<1>2. \A d \in Clients : d # c => pc'[d] = "idle" /\ pc[d] = "idle"
  BY <1>1, OthersKeep DEF Step, SerialInv
<1>3. CurrentKey' = CurrentKey
  BY <1>1 DEF CurrentKey
<1>4. mem[c].secrets = disk.secrets /\ IsVault(mem[c])
  BY <1>1 DEF Calm, CopiesFit
<1>5. ASSUME NEW s, mem' = [mem EXCEPT ![c].secrets = s]
      PROVE  mem'[c].secrets = s
  <2>1. mem'[c] = [mem[c] EXCEPT !.secrets = s]
    BY <1>5
  <2>2. mem[c] = [salt |-> mem[c].salt, secrets |-> mem[c].secrets]
    BY <1>4 DEF IsVault
  <2> QED BY <2>1, <2>2
<1>6. pc'[c] = "save" =>
        /\ ValuesOf(mem'[c].secrets) = Changed(Command(c), ValuesOf(disk.secrets))
        /\ op[c] = "delete" => arg[c] \in DOMAIN disk.secrets
  <2>1. CASE Store(c)
    <3>1. mem'[c].secrets = With(disk.secrets, arg[c], Encrypt(val[c], ekey[c]))
      BY <1>4, <1>5, <2>1 DEF Store
    <3>2. op[c] = "set"
      BY <2>1 DEF Store
    <3> QED BY <3>1, <3>2, ValuesWith DEF Changed, Command
  <2>2. CASE Delete(c)
    <3>1. op[c] = "delete"
      BY <2>2 DEF Delete
    <3>2. pc'[c] = "save" => /\ mem'[c].secrets = Without(disk.secrets, arg[c])
                             /\ arg[c] \in DOMAIN disk.secrets
      BY <1>4, <1>5, <2>2 DEF Delete, Finish, Goto
    <3> QED BY <3>1, <3>2, ValuesWithout DEF Changed, Command
  <2>3. CASE Rotate(c)
    <3>1. op[c] = "rotate"
      BY <2>3 DEF Rotate
    <3>2. pc'[c] = "save" => \E key : mem'[c].secrets = Reencrypted(disk.secrets, key)
      BY <1>4, <2>3 DEF Rotate, Finish, Goto
    <3> QED BY <3>1, <3>2, ValuesReencrypted DEF Changed, Command
  <2>4. CASE Get(c) \/ Unlock(c)
    BY <2>4 DEF Get, Unlock, Finish, Goto
  <2> QED BY <2>1, <2>2, <2>3, <2>4
<1>7. FileIsWhole'
  BY <1>1, <1>2 DEF Calm, FileIsWhole
<1>8. CopiesFit'
  BY <1>1, <1>2, <1>6 DEF CopiesFit, Command
<1> QED BY <1>1, <1>3, <1>7, <1>8 DEF Calm, Under

LEMMA SaveCalm ==
    ASSUME PInv, Calm, SerialInv, SerialInv', NEW c \in Clients, Truncate(c) \/ Write(c)
    PROVE  Calm'
<1> USE DEF PInv, KeyInv, RotateInv, TypeOK
<1>1. pc[c] \in {"save", "write"} /\ UNCHANGED <<op, arg, val, mem>>
  BY DEF Truncate, Write, inputs
<1>2. \A d \in Clients : d # c => pc'[d] = "idle" /\ pc[d] = "idle"
  BY <1>1, OthersKeep DEF Step, SerialInv
<1>3. CASE Truncate(c)
  <2>1. /\ pc'[c] = "write" /\ file' = "torn" /\ UNCHANGED <<disk, password>>
    BY <1>3 DEF Truncate, Goto
  <2>2. CurrentKey' = CurrentKey
    BY <2>1 DEF CurrentKey
  <2>3. CopiesFit'
    BY <1>1, <1>2, <2>1 DEF Calm, CopiesFit, Command
  <2> QED BY <1>2, <2>1, <2>2, <2>3 DEF Calm, Under, FileIsWhole
<1>4. CASE Write(c)
  <2>1. pc'[c] = "idle" /\ file' = "ok"
    BY <1>4 DEF Write, Landed, Finish, Goto, Calm, FileIsWhole
  <2>2. Under(disk'.secrets, CurrentKey')
    BY <2>1 DEF SerialInv
  <2> QED BY <1>2, <2>1, <2>2 DEF Calm, FileIsWhole, CopiesFit
<1> QED BY <1>3, <1>4

\* While nothing has disturbed the commands, nothing had before the step.
LEMMA StillUndisturbed ==
    ASSUME NEW c \in Clients, Begin(c) \/ Step(c) \/ Crash(c) \/ WriteFails(c),
           disturbed' = {}
    PROVE  disturbed = {} /\ ~Crash(c) /\ ~WriteFails(c)
BY DEF Begin, Step, Load, Store, Delete, Get, Unlock, Rotate, Truncate, Write, Crash,
       WriteFails

LEMMA PInvStep == PInv /\ [Next]_vars => PInv'
<1> SUFFICES ASSUME PInv, [Next]_vars PROVE PInv'
  OBVIOUS
<1>1. TypeOK /\ KeyInv /\ Places
  BY DEF PInv, KeyInv, RotateInv
<1>2. KeyInv'
  <2>1. TypeOK'
    <3>1. CASE UNCHANGED vars
      BY <1>1, <3>1 DEF vars, fileVars, clientVars, inputs, TypeOK
    <3>2. ASSUME NEW c \in Clients, Begin(c) \/ Step(c) \/ Crash(c) \/ WriteFails(c)
          PROVE  TypeOK'
      BY <1>1, <3>2, TypeBegin, TypeLoad, TypeEdit, TypeRotate, TypeSave DEF Step
    <3> QED BY <3>1, <3>2 DEF Next
  <2>2. CopyInv'
    BY <1>1, RotateStep DEF KeyInv
  <2>3. Guarded'
    BY <1>1, KeyStep
  <2> QED BY <2>1, <2>2, <2>3 DEF KeyInv, RotateInv
<1>3. Places'
  BY <1>1, PlacesStep
<1>4. ASSUME disturbed' = {} PROVE Calm'
  <2>1. ASSUME NEW c \in Clients, Begin(c) \/ Step(c) \/ Crash(c) \/ WriteFails(c)
        PROVE  Calm'
    <3>1. disturbed = {} /\ ~Crash(c) /\ ~WriteFails(c)
      BY <1>4, <2>1, StillUndisturbed
    <3>2. Calm /\ SerialInv /\ SerialInv'
      BY <1>1, <1>2, <1>4, <3>1 DEF PInv, KeyInv, Guarded
    <3> QED BY <1>4, <2>1, <3>1, <3>2, BeginCalm, LoadCalm, EditCalm, SaveCalm DEF Step
  <2>2. CASE UNCHANGED vars
    <3>1. UNCHANGED <<file, disk, password, pc, op, arg, val, mem, disturbed>>
      BY <2>2 DEF vars, fileVars, clientVars, inputs
    <3> QED BY <1>4, <3>1 DEF PInv, Calm, Under, CurrentKey, FileIsWhole, CopiesFit, Command
  <2> QED BY <2>1, <2>2 DEF Next
<1> QED BY <1>2, <1>3, <1>4 DEF PInv

LEMMA VaultInvariant == Spec => []PInv
<1>1. Init => PInv
  <2> SUFFICES ASSUME Init PROVE PInv
    OBVIOUS
  <2>1. TypeOK
    BY TypeInit
  <2>2. CopyInv /\ Guarded
    BY DEF Init, CopyInv, Guarded, SerialInv
  <2>3. Places
    BY DEF Init, Places
  <2>4. Under(disk.secrets, CurrentKey)
    BY DEF Init, NewVault, Under
  <2>5. FileIsWhole /\ CopiesFit
    BY DEF Init, FileIsWhole, CopiesFit
  <2> QED BY <2>1, <2>2, <2>3, <2>4, <2>5 DEF PInv, KeyInv, RotateInv, Calm
<1> QED BY <1>1, PInvStep, PTL DEF Spec

-----------------------------------------------------------------------------
(***************************************************************************)
(* The refinement.                                                         *)
(***************************************************************************)
\* What the promise sees of the clients.
Pending == [c \in Clients |-> IF pc[c] = "idle" THEN NoCommand ELSE Command(c)]
Reply   == [c \in Clients |-> Told(c)]

LEMMA OthersSeen ==
    ASSUME TypeOK, NEW c \in Clients,
           Begin(c) \/ Step(c) \/ Crash(c) \/ WriteFails(c)
    PROVE  /\ Pending' = [Pending EXCEPT ![c] = Pending'[c]]
           /\ Reply' = [Reply EXCEPT ![c] = Reply'[c]]
<1>1. ASSUME NEW d \in Clients, d # c
      PROVE  Pending'[d] = Pending[d] /\ Reply'[d] = Reply[d]
  <2>1. /\ pc'[d] = pc[d] /\ op'[d] = op[d] /\ mem'[d] = mem[d]
        /\ answer'[d] = answer[d] /\ arg'[d] = arg[d] /\ val'[d] = val[d]
    BY <1>1, OthersKeep, OthersAnswer
  <2> QED BY <2>1 DEF Pending, Reply, Told, Command
<1>2. DOMAIN Pending = Clients /\ DOMAIN Reply = Clients
  BY DEF Pending, Reply
<1> QED BY <1>1, <1>2 DEF Pending, Reply

\* A step that ends no command and begins none.
LEMMA InnerStep ==
    ASSUME PInv, NEW c \in Clients, Step(c), UNCHANGED <<disk, password, disturbed>>,
           pc[c] # "idle", pc'[c] # "idle", UNCHANGED <<op, arg, val, answer>>
    PROVE  UNCHANGED Promise!vars
<1> USE DEF PInv, KeyInv, RotateInv
<1>1. Pending'[c] = Pending[c]
  BY DEF Pending, Command
<1>2. answer[c] = "none"
  BY DEF Places
<1>3. Reply'[c] = Reply[c]
  BY <1>2 DEF Reply, Told
<1>4. Pending' = Pending /\ Reply' = Reply
  BY <1>1, <1>3, OthersSeen DEF Pending, Reply
<1>5. Opened' = Opened
  BY DEF Opened, CurrentKey
<1> QED BY <1>4, <1>5 DEF Promise!vars, Pending, Reply

\* A command ends as the promise says.
LEMMA CommitStep ==
    ASSUME PInv, NEW c \in Clients, Step(c), pc[c] # "idle", pc'[c] = "idle",
           Reply'[c] \in Said(Command(c), Opened),
           Opened' = Changed(Command(c), Opened), UNCHANGED disturbed
    PROVE  Promise!Commit(c)
<1> USE DEF PInv, KeyInv, RotateInv
<1>1. Pending[c] = Command(c) /\ Pending'[c] = NoCommand
  BY DEF Pending
<1>2. Command(c) # NoCommand
  BY DEF TypeOK, Command, NoCommand, Ops
<1>3. Pending' = [Pending EXCEPT ![c] = NoCommand] /\ Reply' = [Reply EXCEPT ![c] = Reply'[c]]
  BY <1>1, OthersSeen
<1> QED BY <1>1, <1>2, <1>3 DEF Promise!Commit, Pending, Reply

LEMMA DisturbedSteps ==
    ASSUME [Next]_vars, disturbed # {} \/ disturbed' # {}
    PROVE  Promise!Disturb
<1>1. disturbed \subseteq disturbed'
  <2>1. ASSUME NEW c \in Clients, Begin(c) \/ Crash(c) \/ WriteFails(c)
        PROVE  disturbed \subseteq disturbed'
    BY <2>1 DEF Begin, Crash, WriteFails
  <2>2. ASSUME NEW c \in Clients, Step(c) PROVE UNCHANGED disturbed
    BY <2>2 DEF Step, Load, Store, Delete, Get, Unlock, Rotate, Truncate, Write
  <2>3. CASE UNCHANGED vars
    BY <2>3 DEF vars, clientVars
  <2> QED BY <2>1, <2>2, <2>3 DEF Next
<1> QED BY <1>1 DEF Promise!Disturb

LEMMA VaultStep == PInv /\ PInv' /\ [Next]_vars => [Promise!Next]_Promise!vars
<1> SUFFICES ASSUME PInv, PInv', [Next]_vars PROVE [Promise!Next]_Promise!vars
  OBVIOUS
<1>d. CASE disturbed # {} \/ disturbed' # {}
  BY <1>d, DisturbedSteps DEF Promise!Next
<1>c. CASE disturbed = {} /\ disturbed' = {}
  <2> USE DEF PInv, KeyInv, RotateInv
  <2>i. Calm /\ Calm' /\ SerialInv /\ UNCHANGED disturbed
    BY <1>c DEF Guarded
  <2>o. Opened = ValuesOf(disk.secrets) /\ Opened' = ValuesOf(disk'.secrets)
    BY <2>i, OpenedIsAll DEF Calm, Under, CurrentKey, Opened, ValuesOf, CanDecrypt
  <2>1. ASSUME NEW c \in Clients, Begin(c) PROVE Promise!Begin(c)
    <3>1. /\ \A d \in Clients : pc[d] = "idle"
          /\ UNCHANGED <<disk, password>> /\ answer'[c] = "none" /\ pc'[c] = "prompted"
      BY <1>c, <2>1 DEF Begin, Active, Goto, TypeOK, fileVars
    <3>2. Command(c)' \in [op : Ops, key : Keys, value : Values]
      BY <2>1 DEF Command, TypeOK
    <3>3. Pending'[c] = Command(c)' /\ Reply'[c] = <<"none">>
      BY <3>1 DEF Pending, Reply, Told
    <3>4. \A d \in Clients : Pending[d] = NoCommand
      BY <3>1 DEF Pending
    <3>5. Opened' = Opened
      BY <2>o, <3>1
    <3> QED BY <2>1, <2>i, <3>2, <3>3, <3>4, <3>5, OthersSeen
            DEF Promise!Begin, Pending, Reply
  <2>2. ASSUME NEW c \in Clients, Load(c) PROVE UNCHANGED Promise!vars
    <3>1. file \notin {"torn", "mangled"}
      BY <2>2, <2>i DEF Load, Calm, FileIsWhole, SerialInv
    <3>2. /\ UNCHANGED <<disk, password, disturbed, op, arg, val, answer>>
          /\ pc[c] # "idle" /\ pc'[c] # "idle"
      BY <2>2, <3>1 DEF Load, Loaded, Goto, TypeOK, inputs
    <3> QED BY <2>2, <3>2, InnerStep DEF Step
  <2>3. ASSUME NEW c \in Clients, Store(c) PROVE UNCHANGED Promise!vars
    <3>1. /\ UNCHANGED <<disk, password, disturbed, op, arg, val, answer>>
          /\ pc[c] # "idle" /\ pc'[c] # "idle"
      BY <2>3 DEF Store, Goto, TypeOK, inputs, fileVars
    <3> QED BY <2>3, <3>1, InnerStep DEF Step
  <2>4. ASSUME NEW c \in Clients, Delete(c) PROVE [Promise!Next]_Promise!vars
    <3>1. CASE arg[c] \in DOMAIN mem[c].secrets
      <4>1. /\ UNCHANGED <<disk, password, disturbed, op, arg, val, answer>>
            /\ pc[c] # "idle" /\ pc'[c] # "idle"
        BY <2>4, <3>1 DEF Delete, Goto, TypeOK, inputs, fileVars
      <4> QED BY <2>4, <4>1, InnerStep DEF Step
    <3>2. CASE arg[c] \notin DOMAIN mem[c].secrets
      <4>1. /\ pc[c] # "idle" /\ pc'[c] = "idle" /\ answer'[c] = "not_found"
            /\ op[c] = "delete" /\ UNCHANGED disk /\ mem[c].secrets = disk.secrets
        BY <2>4, <2>i, <3>2 DEF Delete, Finish, Goto, TypeOK, fileVars, Calm, CopiesFit
      <4>2. Changed(Command(c), Opened) = Opened'
        BY <2>o, <3>2, <4>1, WithoutNothing DEF Changed, Command
      <4>3. arg[c] \notin DOMAIN Opened
        BY <2>o, <3>2, <4>1 DEF ValuesOf
      <4>4. Reply'[c] \in Said(Command(c), Opened)
        BY <4>1, <4>3 DEF Reply, Told, Said, Command
      <4>5. Promise!Commit(c)
        BY <2>4, <2>i, <4>1, <4>2, <4>4, CommitStep DEF Step
      <4> QED BY <4>5 DEF Promise!Next
    <3> QED BY <3>1, <3>2
  <2>5. ASSUME NEW c \in Clients, Get(c) PROVE Promise!Commit(c)
    <3>1. /\ pc[c] # "idle" /\ pc'[c] = "idle" /\ op[c] = "get"
          /\ mem[c].secrets = disk.secrets /\ UNCHANGED <<disk, mem, arg>>
      BY <2>5, <2>i DEF Get, Finish, Goto, TypeOK, fileVars, inputs, Calm, CopiesFit
    <3>2. \A k \in DOMAIN mem[c].secrets : CanDecrypt(mem[c].secrets[k], ekey[c])
      BY <2>5, <2>i DEF Get, SerialInv, Under, CanDecrypt
    <3>3. IF arg[c] \in DOMAIN Opened
          THEN Reply'[c] = <<"value", Opened[arg[c]]>> ELSE Reply'[c] = <<"not_found">>
      BY <2>5, <2>o, <3>1, <3>2 DEF Get, Finish, Reply, Told, ValuesOf, TypeOK
    <3>4. Reply'[c] \in Said(Command(c), Opened) /\ Changed(Command(c), Opened) = Opened
      <4>1. Command(c).op = "get" /\ Command(c).key = arg[c]
        BY <3>1 DEF Command
      <4>2. CASE arg[c] \in DOMAIN Opened
        <5>1. Said(Command(c), Opened) = {<<"value", Opened[arg[c]]>>}
          BY <4>1, <4>2 DEF Said
        <5> QED BY <3>3, <4>1, <4>2, <5>1 DEF Changed
      <4>3. CASE arg[c] \notin DOMAIN Opened
        <5>1. Said(Command(c), Opened) = {<<"not_found">>}
          BY <4>1, <4>3 DEF Said
        <5> QED BY <3>3, <4>1, <4>3, <5>1 DEF Changed
      <4> QED BY <4>2, <4>3
    <3>5. Opened' = Opened
      BY <2>o, <3>1
    <3> QED BY <2>5, <2>i, <3>1, <3>4, <3>5, CommitStep DEF Step
  <2>6. ASSUME NEW c \in Clients, Unlock(c) PROVE Promise!Commit(c)
    <3>1. /\ pc[c] # "idle" /\ pc'[c] = "idle" /\ op[c] = "unlock"
          /\ answer'[c] = "unlocked" /\ UNCHANGED disk
      BY <2>6 DEF Unlock, Finish, Goto, TypeOK, fileVars
    <3>2. Reply'[c] \in Said(Command(c), Opened) /\ Changed(Command(c), Opened) = Opened
      BY <3>1 DEF Reply, Told, Said, Changed, Command
    <3> QED BY <2>6, <2>i, <2>o, <3>1, <3>2, CommitStep DEF Step
  <2>7. ASSUME NEW c \in Clients, Rotate(c) PROVE UNCHANGED Promise!vars
    <3>1. AllDecrypt(mem[c].secrets, ekey[c])
      BY <2>7, <2>i DEF Rotate, SerialInv, Under, AllDecrypt, CanDecrypt
    <3>2. /\ UNCHANGED <<disk, password, disturbed, op, arg, val, answer>>
          /\ pc[c] # "idle" /\ pc'[c] # "idle"
      BY <2>7, <3>1 DEF Rotate, Goto, TypeOK, inputs
    <3> QED BY <2>7, <3>2, InnerStep DEF Step
  <2>8. ASSUME NEW c \in Clients, Truncate(c) PROVE UNCHANGED Promise!vars
    <3>1. /\ UNCHANGED <<disk, password, disturbed, op, arg, val, answer>>
          /\ pc[c] # "idle" /\ pc'[c] # "idle"
      BY <2>8 DEF Truncate, Goto, TypeOK, inputs
    <3> QED BY <2>8, <3>1, InnerStep DEF Step
  <2>9. ASSUME NEW c \in Clients, Write(c) PROVE Promise!Commit(c)
    <3>1. /\ pc[c] = "write" /\ pc'[c] = "idle" /\ answer'[c] = "saved" /\ disk' = mem[c]
          /\ op[c] \in {"set", "delete", "rotate"}
      BY <2>9 DEF Write, Written, Finish, Goto, TypeOK, Places
    <3>2. Opened' = Changed(Command(c), Opened) /\ (op[c] = "delete" => arg[c] \in DOMAIN Opened)
      BY <2>i, <2>o, <3>1 DEF Calm, CopiesFit, ValuesOf
    <3>3. Reply'[c] \in Said(Command(c), Opened)
      BY <3>1, <3>2 DEF Reply, Told, Said, Command
    <3> QED BY <2>9, <2>i, <3>1, <3>2, <3>3, CommitStep DEF Step
  <2>10. ASSUME NEW c \in Clients, Crash(c) \/ WriteFails(c) PROVE FALSE
    BY <1>c, <2>10 DEF Crash, WriteFails
  <2>11. CASE UNCHANGED vars
    BY <2>11 DEF vars, fileVars, clientVars, inputs, Promise!vars, Opened, CurrentKey, Command,
                 Told
  <2> QED
    BY <2>1, <2>2, <2>3, <2>4, <2>5, <2>6, <2>7, <2>8, <2>9, <2>10, <2>11
    DEF Next, Step, Promise!Next
<1> QED BY <1>c, <1>d

\* Vault commands that run one at a time, with the right password and to their
\* end, do what an atomic file of plain values would (ImplementsAtomicFile):
\* what `set' stored is what `get' shows, across any number of rotations.
THEOREM VaultImplementsAtomicFile == Spec => ImplementsAtomicFile
<1>1. Init => Promise!Init
  BY DEF Init, Promise!Init, Told
<1>2. PInv /\ [Next]_vars => [Promise!Next]_Promise!vars
  BY VaultStep, PInvStep
<1> QED BY <1>1, <1>2, VaultInvariant, PTL DEF Spec, ImplementsAtomicFile, Promise!Spec

=============================================================================
