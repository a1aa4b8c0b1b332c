------------------------- MODULE SecretStoreProofs --------------------------
(***************************************************************************)
(* What holds of SecretStore for every number of processes, every choice   *)
(* of their commands and every host.                                       *)
(***************************************************************************)
EXTENDS SecretInvariant, TLAPS

-----------------------------------------------------------------------------
(* One step.                                                               *)

Acts(p) ==
  \/ Start(p) \/ Exists(p) \/ Read(p) \/ StoreSteps(p) \/ Truncate(p) \/ Write(p) \/ Prompt(p)
  \/ Send(p) \/ ReadSecret(p) \/ Decrypt(p) \/ KeyringGone(p) \/ Remove(p) \/ Delete(p)
  \/ Refused(p) \/ Crash(p)

LEMMA StepOfOne ==
  ASSUME [Next]_vars
  PROVE  (\E p \in Procs : Acts(p)) \/ UNCHANGED vars
BY DEF Next, Acts

\* A step of one process leaves the others where they are.
LEMMA OthersStay ==
  ASSUME TypeOK, NEW p \in Procs, Acts(p), NEW q \in Procs \ {p}
  PROVE  /\ pc'[q] = pc[q] /\ cont'[q] = cont[q] /\ mem'[q] = mem[q] /\ storing'[q] = storing[q]
         /\ token'[q] = token[q] /\ myKey'[q] = myKey[q]
<1>1. pc'[q] = pc[q]
  BY DEF TypeOK, Acts, StoreSteps, Go, Step, Start, Exists, Read, Store, Key, KeyTruncate, KeyWrite,
     SecretTruncate, SecretWrite, ShredSecret, UnlinkSecret, ShredKey, UnlinkKey, Failed, Truncate,
     Write, Prompt, Send, ReadSecret, Decrypt, KeyringGone, Remove, Delete, Crash, Refused,
     AfterSave
<1>2. cont'[q] = cont[q] /\ storing'[q] = storing[q]
  BY DEF TypeOK, Acts, StoreSteps, local, Start, Exists, Read, Store, Key, KeyTruncate, KeyWrite,
     SecretTruncate, SecretWrite, ShredSecret, UnlinkSecret, ShredKey, UnlinkKey, Failed, Truncate,
     Write, Prompt, Send, ReadSecret, Decrypt, KeyringGone, Remove, Delete, Crash, Refused,
     AfterSave
<1>3. mem'[q] = mem[q]
  BY DEF TypeOK, Acts, StoreSteps, local, Start, Exists, Read, Store, Key, KeyTruncate, KeyWrite,
     SecretTruncate, SecretWrite, ShredSecret, UnlinkSecret, ShredKey, UnlinkKey, Failed, Truncate,
     Write, Prompt, Send, ReadSecret, Decrypt, KeyringGone, Remove, Delete, Crash, Refused, Stored
<1>4. token'[q] = token[q] /\ myKey'[q] = myKey[q]
  BY DEF TypeOK, Acts, StoreSteps, local, Start, Exists, Read, Store, Key, KeyTruncate, KeyWrite,
     SecretTruncate, SecretWrite, ShredSecret, UnlinkSecret, ShredKey, UnlinkKey, Failed, Truncate,
     Write, Prompt, Send, ReadSecret, Decrypt, KeyringGone, Remove, Delete, Crash, Refused
<1>. QED
  BY <1>1, <1>2, <1>3, <1>4

-----------------------------------------------------------------------------
(* What each action does to the process that takes it.                     *)

LEMMA GoesTo ==
  ASSUME TypeOK, NEW p \in Procs, NEW place, Go(p, place)
  PROVE  pc'[p] = place
BY DEF Go, TypeOK

LEMMA StepsTo ==
  ASSUME TypeOK, NEW p \in Procs, NEW from, NEW to, Step(p, from, to)
  PROVE  pc[p] = from /\ pc'[p] = to
BY GoesTo DEF Step

LEMMA StoresAs ==
  ASSUME TypeOK, NEW p \in Procs, NEW kind, Stored(p, kind)
  PROVE  mem'[p].user = mem[p].user /\ mem'[p].pw = None /\ mem'[p].backend = kind
BY DEF Stored, TypeOK, Data

LEMMA ReadDoes ==
  ASSUME TypeOK, NEW p \in Procs, Read(p)
  PROVE  /\ pc[p] = "read" /\ UNCHANGED <<life, files, newest, faults>>
         /\ mem'[p] = IF config.state = "ok" THEN config.data ELSE Defaults
         /\ \/ /\ ToMigrate(mem'[p]) /\ pc'[p] = "store" /\ cont'[p] = "migrate"
               /\ storing'[p] = mem'[p].pw
            \/ /\ ~ToMigrate(mem'[p]) /\ pc'[p] = AfterLoad(p) /\ cont'[p] = cont[p]
               /\ storing'[p] = storing[p]
         /\ token'[p] = token[p] /\ myKey'[p] = myKey[p]
<1>. DEFINE data == IF config.state = "ok" THEN config.data ELSE Defaults
<1>1. mem'[p] = data
  BY DEF Read, TypeOK
<1>2. CASE ToMigrate(data)
  <2>1. Go(p, "store") /\ cont' = [cont EXCEPT ![p] = "migrate"]
        /\ storing' = [storing EXCEPT ![p] = data.pw]
    BY <1>2 DEF Read
  <2>2. pc'[p] = "store" /\ cont'[p] = "migrate" /\ storing'[p] = data.pw
    BY <2>1, GoesTo DEF TypeOK
  <2>. QED
    BY <1>1, <1>2, <2>2 DEF Read
<1>3. CASE ~ToMigrate(data)
  <2>1. Go(p, AfterLoad(p)) /\ UNCHANGED <<cont, storing>>
    BY <1>3 DEF Read
  <2>. QED
    BY <1>1, <1>3, <2>1, GoesTo DEF Read
<1>. QED
  BY <1>2, <1>3

LEMMA ExistsDoes ==
  ASSUME TypeOK, NEW p \in Procs, Exists(p)
  PROVE  /\ pc[p] = "exists"
         /\ UNCHANGED <<life, files, mem, storing, token, myKey, used, newest, faults>>
         /\ \/ config.state = "absent" /\ pc'[p] = "truncate" /\ cont'[p] = "loaded"
            \/ config.state # "absent" /\ pc'[p] = "read" /\ cont' = cont
BY GoesTo DEF Exists, TypeOK

LEMMA StoreDoes ==
  ASSUME TypeOK, NEW p \in Procs, Store(p)
  PROVE  /\ pc[p] = "store" /\ UNCHANGED <<life, config, secret, key, made, local, newest, faults>>
         /\ \/ mem[p].user /\ p \in life.keyring /\ keyring' = storing[p] /\ pc'[p] = "shredSecret"
            \/ ~(mem[p].user /\ p \in life.keyring) /\ keyring' = keyring /\ pc'[p] = "key"
BY GoesTo DEF Store, KeyringSet

LEMMA KeyDoes ==
  ASSUME TypeOK, NEW p \in Procs, Key(p)
  PROVE  /\ pc[p] = "key"
         /\ UNCHANGED <<life, files, cont, mem, storing, token, used, newest, faults>>
         /\ \/ key = NoKey /\ pc'[p] = "keyTruncate" /\ myKey' = myKey
            \/ /\ key # NoKey /\ (key # Torn \/ life.machineId) /\ myKey'[p] = key
               /\ pc'[p] = IF cont[p] = "decrypt" THEN "decrypt" ELSE "secretTruncate"
            \/ key = Torn /\ ~life.machineId /\ pc'[p] = "failed" /\ myKey' = myKey
BY GoesTo DEF Key, TypeOK

LEMMA KeyTruncateDoes ==
  ASSUME TypeOK, NEW p \in Procs, KeyTruncate(p)
  PROVE  /\ pc[p] = "keyTruncate" /\ pc'[p] = "keyWrite"
         /\ key' = Torn /\ made' = made + 1 /\ myKey'[p] = made + 1 /\ made + 1 \notin {NoKey, Torn}
         /\ UNCHANGED <<life, config, keyring, secret, cont, mem, storing, token, newest, faults>>
<1>1. made \in Nat
  BY DEF TypeOK
<1>. QED
  BY <1>1, StepsTo DEF KeyTruncate, TypeOK, NoKey, Torn

LEMMA KeyWriteDoes ==
  ASSUME TypeOK, NEW p \in Procs, KeyWrite(p)
  PROVE  /\ pc[p] = "keyWrite" /\ key' = myKey[p]
         /\ pc'[p] = IF cont[p] = "decrypt" THEN "decrypt" ELSE "secretTruncate"
         /\ UNCHANGED <<life, config, keyring, secret, made, local, newest, faults>>
BY StepsTo DEF KeyWrite

LEMMA SecretTruncateDoes ==
  ASSUME TypeOK, NEW p \in Procs, SecretTruncate(p)
  PROVE  /\ pc[p] = "secretTruncate" /\ pc'[p] = "secretWrite" /\ secret' = TornSecret
         /\ UNCHANGED <<life, config, keyring, key, made, local, newest, faults>>
BY StepsTo DEF SecretTruncate

LEMMA SecretWriteDoes ==
  ASSUME TypeOK, NEW p \in Procs, SecretWrite(p)
  PROVE  /\ pc[p] = "secretWrite" /\ pc'[p] = "truncate"
         /\ secret' = [state |-> "ok", pw |-> storing[p], key |-> myKey[p]]
         /\ mem'[p].user = mem[p].user /\ mem'[p].pw = None /\ mem'[p].backend = "file"
         /\ UNCHANGED <<life, config, keyring, key, made, cont, storing, token, myKey, newest, faults>>
BY StepsTo, StoresAs DEF SecretWrite

LEMMA ShredSecretDoes ==
  ASSUME TypeOK, NEW p \in Procs, ShredSecret(p) \/ UnlinkSecret(p)
  PROVE  /\ \/ pc[p] = "shredSecret" /\ pc'[p] = "unlinkSecret"
            \/ pc[p] = "unlinkSecret" /\ pc'[p] = "shredKey"
         /\ secret' \in {secret, TornSecret, NoSecret}
         /\ secret = NoSecret => secret' = NoSecret
         /\ UNCHANGED <<life, config, keyring, key, made, local, newest, faults>>
<1>1. NoSecret.state = "absent"
  BY DEF NoSecret
<1>. QED
  BY <1>1, StepsTo DEF ShredSecret, UnlinkSecret

LEMMA ShredKeyDoes ==
  ASSUME TypeOK, NEW p \in Procs, ShredKey(p)
  PROVE  /\ pc[p] = "shredKey" /\ pc'[p] = "unlinkKey"
         /\ key = NoKey => key' = NoKey
         /\ UNCHANGED <<life, config, keyring, secret, local, newest, faults>>
BY StepsTo DEF ShredKey

LEMMA UnlinkKeyDoes ==
  ASSUME TypeOK, NEW p \in Procs, UnlinkKey(p)
  PROVE  /\ pc[p] = "unlinkKey" /\ key' = NoKey
         /\ \/ Shredding(p) /\ pc'[p] = "remove" /\ mem' = mem
            \/ /\ ~Shredding(p) /\ pc'[p] = "truncate"
               /\ mem'[p].user = mem[p].user /\ mem'[p].pw = None /\ mem'[p].backend = "keyring"
         /\ UNCHANGED <<life, config, keyring, secret, made, cont, storing, token, myKey, newest, faults>>
BY GoesTo, StoresAs DEF UnlinkKey, Shredding

LEMMA FailedDoes ==
  ASSUME TypeOK, NEW p \in Procs, Failed(p)
  PROVE  /\ pc[p] = "failed" /\ UNCHANGED <<life, files, storing, token, myKey, newest, faults>>
         /\ \/ cont[p] = "migrate" /\ pc'[p] = AfterLoad(p) /\ cont'[p] = None /\ mem' = mem
            \/ cont[p] = "init" /\ pc'[p] = "truncate" /\ cont' = cont
            \/ cont[p] = "decrypt" /\ pc'[p] = "done" /\ cont' = cont /\ mem' = mem
<1>1. CASE cont[p] = "migrate"
  <2>1. Go(p, AfterLoad(p)) /\ cont' = [cont EXCEPT ![p] = None] /\ mem' = mem
    BY <1>1 DEF Failed
  <2>. QED
    BY <1>1, <2>1, GoesTo DEF Failed, TypeOK
<1>2. CASE cont[p] # "migrate"
  BY <1>2, GoesTo DEF Failed
<1>. QED
  BY <1>1, <1>2

LEMMA TruncateDoes ==
  ASSUME TypeOK, NEW p \in Procs, Truncate(p)
  PROVE  /\ pc[p] = "truncate" /\ pc'[p] = "write"
         /\ config'.state = "torn" /\ config'.data = Defaults
         /\ UNCHANGED <<life, keyring, secret, key, made, local, newest, faults>>
BY StepsTo DEF Truncate

LEMMA AfterSaveDoes ==
  ASSUME TypeOK, NEW p \in Procs, NEW said, AfterSave(p, said)
  PROVE  \/ cont[p] = "init" /\ cont'[p] = "init" /\ pc'[p] = "done"
         \/ cont[p] = "migrate" /\ cont'[p] = said /\ pc'[p] = AfterLoad(p)
         \/ cont[p] \notin {"init", "migrate"} /\ cont'[p] = None /\ pc'[p] = AfterLoad(p)
<1>1. pc'[p] = IF cont[p] = "init" THEN "done" ELSE AfterLoad(p)
  BY GoesTo DEF AfterSave
<1>2. cont'[p] = IF cont[p] = "migrate" THEN said ELSE IF cont[p] = "init" THEN cont[p] ELSE None
  BY DEF AfterSave, TypeOK
<1>. QED
  BY <1>1, <1>2

LEMMA WriteDoes ==
  ASSUME TypeOK, NEW p \in Procs, Write(p)
  PROVE  /\ pc[p] = "write" /\ config'.state = "ok" /\ config'.data = mem[p]
         /\ \/ cont[p] = "init" /\ cont'[p] = "init" /\ pc'[p] = "done"
            \/ cont[p] = "migrate" /\ cont'[p] = "migrated" /\ pc'[p] = AfterLoad(p)
            \/ cont[p] \notin {"init", "migrate"} /\ cont'[p] = None /\ pc'[p] = AfterLoad(p)
         /\ newest' = IF cont[p] = "init" /\ storing[p] # None THEN storing[p] ELSE newest
         /\ UNCHANGED <<life, keyring, secret, key, made, mem, storing, token, myKey, faults>>
<1>1. AfterSave(p, "migrated") /\ pc[p] = "write" /\ config' = [state |-> "ok", data |-> mem[p]]
  BY DEF Write
<1>2. newest' = IF cont[p] = "init" /\ storing[p] # None THEN storing[p] ELSE newest
  BY <1>1 DEF AfterSave
<1>. QED
  BY <1>1, <1>2, AfterSaveDoes DEF Write

LEMMA RefusedDoes ==
  ASSUME TypeOK, NEW p \in Procs, Refused(p)
  PROVE  /\ Running(p) /\ faults' = faults + 1
         /\ UNCHANGED <<life, files, mem, storing, token, myKey, used>>
         /\ \/ /\ pc[p] \in {"truncate", "write"}
               /\ \/ cont[p] = "init" /\ cont'[p] = "init" /\ pc'[p] = "done"
                  \/ cont[p] = "migrate" /\ cont'[p] = "unsaved" /\ pc'[p] = AfterLoad(p)
                  \/ cont[p] \notin {"init", "migrate"} /\ cont'[p] = None /\ pc'[p] = AfterLoad(p)
            \/ /\ pc[p] \in {"keyTruncate", "keyWrite", "secretTruncate", "secretWrite"}
               /\ pc'[p] = "failed" /\ cont' = cont
<1>1. \/ pc[p] \in {"truncate", "write"} /\ AfterSave(p, "unsaved")
      \/ /\ pc[p] \in {"keyTruncate", "keyWrite", "secretTruncate", "secretWrite"}
         /\ pc'[p] = "failed" /\ cont' = cont
  BY GoesTo DEF Refused
<1>2. Running(p)
  BY <1>1 DEF Running, Over
<1>3. /\ faults' = faults + 1 /\ UNCHANGED <<life, files, mem, storing, token, myKey, used>>
  BY DEF Refused
<1>. QED
  BY <1>1, <1>2, <1>3, AfterSaveDoes

LEMMA PromptDoes ==
  ASSUME TypeOK, NEW p \in Procs, Prompt(p)
  PROVE  /\ pc[p] = "prompt" /\ cont'[p] = "init"
         /\ mem'[p].user = TRUE /\ mem'[p].pw = mem[p].pw /\ mem'[p].backend = mem[p].backend
         /\ \/ pc'[p] = "store" /\ storing'[p] = "new"
            \/ pc'[p] = "truncate" /\ storing'[p] = None
         /\ UNCHANGED <<life, files, token, myKey, newest, faults>>
<1>1. mem'[p].user = TRUE /\ mem'[p].pw = mem[p].pw /\ mem'[p].backend = mem[p].backend
  BY DEF Prompt, TypeOK, Data
<1>2. \/ pc'[p] = "store" /\ storing'[p] = "new"
      \/ pc'[p] = "truncate" /\ storing'[p] = None
  BY GoesTo DEF Prompt, TypeOK
<1>. QED
  BY <1>1, <1>2 DEF Prompt, TypeOK

\* The password a run finds without secret.enc.
Found(p) ==
  IF mem[p].pw # None THEN mem[p].pw ELSE IF p \in life.keyring THEN keyring ELSE None

LEMMA SendDoes ==
  ASSUME TypeOK, NEW p \in Procs, Send(p)
  PROVE  /\ pc[p] = "send"
         /\ UNCHANGED <<life, files, cont, mem, storing, token, myKey, newest, faults>>
         /\ \/ /\ ~(mem[p].user /\ (mem[p].pw # None \/ mem[p].backend # ""))
               /\ pc'[p] = "done" /\ used'[p] = "unconfigured"
            \/ /\ mem[p].user /\ (mem[p].pw # None \/ mem[p].backend # "") /\ Found(p) # None
               /\ pc'[p] = "done" /\ used'[p] = Found(p)
            \/ /\ mem[p].user /\ (mem[p].pw # None \/ mem[p].backend # "") /\ Found(p) = None
               /\ pc'[p] = "readSecret"
<1>. DEFINE configured == mem[p].user /\ (mem[p].pw # None \/ mem[p].backend # "")
<1>1. \/ ~configured /\ Go(p, "done") /\ used' = [used EXCEPT ![p] = "unconfigured"]
      \/ configured /\ Found(p) # None /\ Go(p, "done") /\ used' = [used EXCEPT ![p] = Found(p)]
      \/ configured /\ Found(p) = None /\ Go(p, "readSecret")
  BY DEF Send, Found
<1>2. \A x : used' = [used EXCEPT ![p] = x] => used'[p] = x
  BY DEF TypeOK
<1>. QED
  BY <1>1, <1>2, GoesTo DEF Send

LEMMA ReadSecretDoes ==
  ASSUME TypeOK, NEW p \in Procs, ReadSecret(p)
  PROVE  /\ pc[p] = "readSecret"
         /\ UNCHANGED <<life, files, mem, storing, myKey, newest, faults>>
         /\ \/ secret.state = "absent" /\ pc'[p] = "done" /\ cont' = cont /\ used' = used
            \/ /\ secret.state # "absent" /\ pc'[p] = "key" /\ cont'[p] = "decrypt"
               /\ token'[p] = secret /\ used' = used
BY GoesTo DEF ReadSecret, TypeOK

LEMMA DecryptDoes ==
  ASSUME TypeOK, NEW p \in Procs, Decrypt(p)
  PROVE  /\ pc[p] = "decrypt" /\ pc'[p] = "done"
         /\ used'[p] = IF token[p].state = "ok" /\ token[p].key = myKey[p] THEN token[p].pw ELSE None
         /\ UNCHANGED <<life, files, cont, mem, storing, token, myKey, newest, faults>>
<1>1. used'[p] = IF token[p].state = "ok" /\ token[p].key = myKey[p] THEN token[p].pw ELSE None
  BY DEF Decrypt, TypeOK
<1>. QED
  BY <1>1, StepsTo DEF Decrypt

LEMMA KeyringGoneDoes ==
  ASSUME TypeOK, NEW p \in Procs, KeyringGone(p)
  PROVE  /\ pc[p] = "keyringGone" /\ pc'[p] = "shredSecret" /\ newest' = None
         /\ keyring' = IF mem[p].user /\ p \in life.keyring THEN None ELSE keyring
         /\ UNCHANGED <<life, config, secret, key, made, local, faults>>
BY StepsTo DEF KeyringGone, PurgeUser

LEMMA RemoveDoes ==
  ASSUME TypeOK, NEW p \in Procs, Remove(p)
  PROVE  /\ pc[p] = "remove" /\ pc'[p] = "done"
         /\ config' = Removed /\ secret' = NoSecret /\ key' = NoKey
         /\ UNCHANGED <<life, keyring, made, local, newest, faults>>
BY StepsTo DEF Remove

LEMMA DeleteDoes ==
  ASSUME TypeOK, NEW p \in Procs, Delete(p)
  PROVE  /\ pc[p] = "delete" /\ pc'[p] = "done" /\ config' = Removed /\ newest' = None
         /\ UNCHANGED <<life, keyring, secret, key, made, local, faults>>
BY StepsTo DEF Delete

LEMMA StartDoes ==
  ASSUME TypeOK, NEW p \in Procs, Start(p)
  PROVE  /\ pc[p] = "new" /\ pc'[p] = "exists" /\ life.command[p] # None /\ (life.serial => Idle)
         /\ UNCHANGED <<life, files, local, newest, faults>>
BY StepsTo DEF Start

LEMMA CrashDoes ==
  ASSUME TypeOK, NEW p \in Procs, Crash(p)
  PROVE  /\ Running(p) /\ pc'[p] = "dead" /\ faults' = faults + 1
         /\ UNCHANGED <<life, files, local, newest>>
BY GoesTo DEF Crash

-----------------------------------------------------------------------------
(* Types and places.                                                       *)

LEMMA TypeInit == Init => TypeOK
<1>. SUFFICES ASSUME Init PROVE TypeOK
  OBVIOUS
<1>1. Defaults \in Data /\ [user |-> TRUE, pw |-> "old", backend |-> ""] \in Data
  BY DEF Defaults, Data, Passwords, None
<1>2. config \in [state : {"absent", "torn", "ok"}, data : Data]
  BY <1>1 DEF Init
<1>3. NoSecret \in Secrets
  <2>1. made = 0
    BY DEF Init
  <2>. QED
    BY <2>1 DEF NoSecret, NoKey, Secrets
<1>4. life \in Lives /\ keyring \in Passwords \cup {None} /\ secret \in Secrets
  BY <1>3 DEF Init
<1>5. made \in Nat /\ key \in -1..made /\ newest \in Passwords \cup {None} /\ faults \in Nat
  <2>1. made = 0 /\ key = NoKey /\ newest \in {"old", None} /\ faults = 0
    BY DEF Init
  <2>. QED
    BY <2>1 DEF NoKey, Passwords
<1>6. mem \in [Procs -> Data] /\ token \in [Procs -> Secrets]
  BY <1>1, <1>3 DEF Init
<1>7. /\ pc \in [Procs -> Places] /\ storing \in [Procs -> Passwords \cup {None}]
      /\ cont \in [Procs -> {None, "loaded", "migrate", "migrated", "unsaved", "init", "decrypt"}]
      /\ used \in [Procs -> Passwords \cup {None, "unconfigured"}]
  BY DEF Init, Places, Over
<1>8. myKey \in [Procs -> -1..made]
  BY <1>5 DEF Init, NoKey
<1>. QED
  BY <1>2, <1>4, <1>5, <1>6, <1>7, <1>8 DEF TypeOK

\* Editing a configuration keeps it one.
LEMMA DataEdited ==
  ASSUME NEW d \in Data, NEW pw \in Passwords \cup {None}, NEW b \in {"", "keyring", "file"}
  PROVE  /\ [d EXCEPT !.pw = pw] \in Data /\ [d EXCEPT !.user = TRUE] \in Data
         /\ [d EXCEPT !.pw = pw, !.backend = b] \in Data
         /\ d.pw \in Passwords \cup {None}
BY DEF Data

LEMMA StoredType ==
  ASSUME TypeOK, NEW p \in Procs, NEW kind \in {"keyring", "file"}, Stored(p, kind)
  PROVE  mem' \in [Procs -> Data]
<1>1. mem[p] \in Data
  BY DEF TypeOK
<1>2. [mem[p] EXCEPT !.pw = None, !.backend = kind] \in Data
  BY <1>1, DataEdited
<1>. QED
  BY <1>2 DEF Stored, TypeOK

\* Where a command goes on is a place, once it has a command.
LEMMA AfterLoadPlace ==
  ASSUME TypeOK, NEW p \in Procs, life.command[p] # None
  PROVE  /\ AfterLoad(p) \in {"done", "send", "prompt", "keyringGone", "delete"}
         /\ AfterLoad(p) = "send" => life.command[p] = "run"
         /\ AfterLoad(p) = "prompt" => life.command[p] = "init"
         /\ AfterLoad(p) = "keyringGone" => life.command[p] = "purge"
         /\ AfterLoad(p) = "delete" => life.command[p] = "reset"
<1>1. life.command[p] \in Commands
  BY SecretAssumption DEF SecretAssumption, LifeType, TypeOK
<1>. QED
  BY <1>1 DEF AfterLoad, Commands

LEMMA AfterSaveType ==
  ASSUME TypeOK, NEW p \in Procs, Placed(p), pc[p] # "new", NEW said \in Said, AfterSave(p, said)
  PROVE  /\ pc' \in [Procs -> Places] /\ newest' \in Passwords \cup {None}
         /\ cont' \in [Procs -> {None, "loaded", "migrate", "migrated", "unsaved", "init", "decrypt"}]
<1>1. AfterLoad(p) \in Places
  BY AfterLoadPlace DEF Placed, Places, Over
<1>. QED
  BY <1>1 DEF AfterSave, Go, TypeOK, Places, Over, Said

LEMMA TypeStep ==
  ASSUME TypeOK, NEW p \in Procs, Placed(p), Acts(p)
  PROVE  TypeOK'
<1>. USE DEF None, Passwords, NoKey, Torn, Secrets
<1>1. CASE Start(p)
  BY <1>1 DEF Start, Step, Go, TypeOK, Places, Over, files, local
<1>2. CASE Exists(p)
  BY <1>2 DEF Exists, Go, TypeOK, Places, Over, files
<1>3. CASE Read(p)
  <2>1. AfterLoad(p) \in Places
    BY <1>3, AfterLoadPlace DEF Read, Placed, Places, Over
  <2>. DEFINE data == IF config.state = "ok" THEN config.data ELSE Defaults
  <2>2. data \in Data
    BY DEF TypeOK, Data, Defaults
  <2>. QED
    <3>1. mem' \in [Procs -> Data] /\ storing' \in [Procs -> Passwords \cup {None}]
      BY <1>3, <2>2, DataEdited DEF Read, TypeOK
    <3>2. pc' \in [Procs -> Places]
      BY <1>3, <2>1 DEF Read, Go, TypeOK, Places, Over
    <3>3. cont' \in [Procs -> {None, "loaded", "migrate", "migrated", "unsaved", "init", "decrypt"}]
          /\ UNCHANGED <<life, files, token, myKey, used, newest, faults>>
      BY <1>3 DEF Read, TypeOK
    <3>. QED
      BY <3>1, <3>2, <3>3 DEF TypeOK, files
<1>4. CASE Store(p)
  BY <1>4 DEF Store, Go, TypeOK, Places, Over, local
<1>5. CASE Key(p)
  <2>1. UNCHANGED <<life, files, cont, mem, storing, token, used, newest, faults>>
    BY <1>5 DEF Key
  <2>2. myKey' \in [Procs -> -1..made]
    BY <1>5 DEF Key, TypeOK
  <2>3. pc' \in [Procs -> Places]
    <3>1. \E place \in {"keyTruncate", "decrypt", "secretTruncate", "failed"} : Go(p, place)
      BY <1>5 DEF Key
    <3>. QED
      BY <3>1 DEF Go, TypeOK, Places
  <2>. QED
    BY <2>1, <2>2, <2>3 DEF TypeOK, files
<1>6. CASE KeyTruncate(p)
  BY <1>6 DEF KeyTruncate, Step, Go, TypeOK, Places, Over
<1>7. CASE KeyWrite(p)
  BY <1>7 DEF KeyWrite, Step, Go, TypeOK, Places, Over, local
<1>8. CASE SecretTruncate(p)
  BY <1>8 DEF SecretTruncate, Step, Go, TypeOK, Places, Over, local, TornSecret
<1>9. CASE SecretWrite(p)
  <2>1. mem' \in [Procs -> Data]
    BY <1>9, StoredType DEF SecretWrite
  <2>. QED
    BY <1>9, <2>1 DEF SecretWrite, Step, Go, TypeOK, Places, Over
<1>10. CASE ShredSecret(p) \/ UnlinkSecret(p)
  BY <1>10 DEF ShredSecret, UnlinkSecret, Step, Go, TypeOK, Places, Over, local, TornSecret,
     NoSecret
<1>11. CASE ShredKey(p)
  BY <1>11 DEF ShredKey, Step, Go, TypeOK, Places, Over, local
<1>12. CASE UnlinkKey(p)
  <2>1. mem' \in [Procs -> Data]
    BY <1>12, StoredType DEF UnlinkKey, TypeOK
  <2>. QED
    BY <1>12, <2>1 DEF UnlinkKey, Go, TypeOK, Places, Over
<1>13. CASE Failed(p)
  <2>1. AfterLoad(p) \in Places
    BY <1>13, AfterLoadPlace DEF Failed, Placed, Places, Over
  <2>2. [mem[p] EXCEPT !.pw = storing[p]] \in Data
    BY DataEdited DEF TypeOK
  <2>3. mem' \in [Procs -> Data]
    BY <1>13, <2>2 DEF Failed, TypeOK
  <2>4. pc' \in [Procs -> Places]
    BY <1>13, <2>1 DEF Failed, Go, TypeOK, Places, Over
  <2>5. cont' \in [Procs -> {None, "loaded", "migrate", "migrated", "unsaved", "init", "decrypt"}]
        /\ UNCHANGED <<life, files, storing, token, myKey, used, newest, faults>>
    BY <1>13 DEF Failed, TypeOK
  <2>. QED
    BY <2>3, <2>4, <2>5 DEF TypeOK, files
<1>14. CASE Truncate(p)
  BY <1>14 DEF Truncate, Step, Go, TypeOK, Places, Over, local, Data, Defaults
<1>15. CASE Write(p)
  <2>1. AfterSave(p, "migrated") /\ pc[p] # "new" /\ "migrated" \in Said
    BY <1>15 DEF Write, Said
  <2>2. config' \in [state : {"absent", "torn", "ok"}, data : Data]
    BY <1>15 DEF Write, TypeOK
  <2>. QED
    BY <1>15, <2>1, <2>2, AfterSaveType DEF Write, TypeOK
<1>16. CASE Prompt(p)
  <2>1. [mem[p] EXCEPT !.user = TRUE] \in Data
    BY DataEdited DEF TypeOK
  <2>2. mem' \in [Procs -> Data]
    BY <1>16, <2>1 DEF Prompt, TypeOK
  <2>. QED
    BY <1>16, <2>2 DEF Prompt, Go, TypeOK, Places, Over, files
<1>17. CASE Send(p)
  <2>1. mem[p].pw \in Passwords \cup {None}
    BY DataEdited DEF TypeOK
  <2>2. used' \in [Procs -> Passwords \cup {None, "unconfigured"}]
    BY <1>17, <2>1 DEF Send, TypeOK
  <2>3. pc' \in [Procs -> Places]
    <3>1. Go(p, "done") \/ Go(p, "readSecret")
      BY <1>17 DEF Send
    <3>. QED
      BY <3>1 DEF Go, TypeOK, Places, Over
  <2>4. cont' = cont /\ UNCHANGED <<life, files, mem, storing, token, myKey, newest, faults>>
    BY <1>17 DEF Send
  <2>. QED
    BY <2>2, <2>3, <2>4 DEF TypeOK, files
<1>18. CASE ReadSecret(p)
  <2>1. pc' \in [Procs -> Places]
    <3>1. Go(p, "done") \/ Go(p, "key")
      BY <1>18 DEF ReadSecret
    <3>. QED
      BY <3>1 DEF Go, TypeOK, Places, Over
  <2>2. cont' \in [Procs -> {None, "loaded", "migrate", "migrated", "unsaved", "init", "decrypt"}]
        /\ token' \in [Procs -> Secrets]
    BY <1>18 DEF ReadSecret, TypeOK
  <2>3. UNCHANGED <<life, files, mem, storing, myKey, used, newest, faults>>
    BY <1>18 DEF ReadSecret
  <2>. QED
    BY <2>1, <2>2, <2>3 DEF TypeOK, files
<1>19. CASE Decrypt(p)
  BY <1>19 DEF Decrypt, Step, Go, TypeOK, Places, Over, files
<1>20. CASE KeyringGone(p)
  BY <1>20 DEF KeyringGone, Step, Go, TypeOK, Places, Over, local
<1>21. CASE Remove(p) \/ Delete(p)
  <2>1. Removed \in [state : {"absent", "torn", "ok"}, data : Data]
    BY DEF Removed, Data, Defaults
  <2>2. NoSecret \in Secrets
    BY DEF NoSecret, TypeOK
  <2>3. pc' \in [Procs -> Places]
    BY <1>21 DEF Remove, Delete, Step, Go, TypeOK, Places, Over
  <2>4. /\ UNCHANGED <<life, keyring, made, local, faults>> /\ newest' \in {newest, None}
        /\ config' = Removed /\ secret' \in {secret, NoSecret} /\ key' \in {key, NoKey}
    BY <1>21 DEF Remove, Delete
  <2>. QED
    BY <2>1, <2>2, <2>3, <2>4 DEF TypeOK, local
<1>22. CASE Crash(p)
  BY <1>22 DEF Crash, Go, TypeOK, Places, Over, files, local
<1>23. CASE Refused(p)
  <2>1. faults' \in Nat /\ UNCHANGED <<life, files, mem, storing, token, myKey, used>>
    BY <1>23 DEF Refused, TypeOK
  <2>2. CASE AfterSave(p, "unsaved")
    <3>1. pc[p] \in {"truncate", "write", "keyTruncate", "keyWrite", "secretTruncate", "secretWrite"}
      BY <1>23 DEF Refused
    <3>2. pc[p] # "new" /\ "unsaved" \in Said
      BY <3>1 DEF Said
    <3>. QED
      BY <2>1, <2>2, <3>2, AfterSaveType DEF TypeOK, files
  <2>3. CASE Go(p, "failed") /\ UNCHANGED <<cont, newest>>
    <3>1. pc' \in [Procs -> Places]
      BY <2>3 DEF Go, TypeOK, Places
    <3>. QED
      BY <2>1, <2>3, <3>1 DEF TypeOK, files
  <2>. QED
    BY <1>23, <2>2, <2>3 DEF Refused
<1>. QED
  BY <1>1, <1>2, <1>3, <1>4, <1>5, <1>6, <1>7, <1>8, <1>9, <1>10, <1>11, <1>12, <1>13, <1>14, <1>15,
     <1>16, <1>17, <1>18, <1>19, <1>20, <1>21, <1>22, <1>23 DEF Acts, StoreSteps

\* A step leaves the process at a place of its command.
LEMMA PlacedStep ==
  ASSUME TypeOK, NEW p \in Procs, Placed(p), Acts(p), NEW q \in Procs, Placed(q)
  PROVE  Placed(q)'
<1>. USE DEF None, Shredding, KeyPlaces, FilePlaces, SavePlaces, ShredPlaces, local, Said
<1>1. life' = life
  BY DEF Acts, StoreSteps, Start, Exists, Read, Store, Key, KeyTruncate, KeyWrite,
     SecretTruncate, SecretWrite, ShredSecret, UnlinkSecret, ShredKey, UnlinkKey, Failed, Truncate,
     Write, Prompt, Send, ReadSecret, Decrypt, KeyringGone, Remove, Delete, Crash, Refused
<1>2. CASE q # p
  <2>1. pc'[q] = pc[q] /\ cont'[q] = cont[q] /\ mem'[q] = mem[q]
    BY <1>2, OthersStay
  <2>. QED
    BY <1>1, <2>1 DEF Placed
<1>3. SUFFICES ASSUME q = p PROVE Placed(p)'
  BY <1>2
<1>4. CASE Start(p) \/ Exists(p)
  BY <1>1, <1>4, StartDoes, ExistsDoes DEF Placed
<1>5. CASE Read(p)
  <2>1. life.command[p] # None
    BY <1>5, ReadDoes DEF Placed
  <2>. QED
    BY <1>1, <1>5, <2>1, ReadDoes, AfterLoadPlace DEF Placed
<1>6. CASE Store(p)
  <2>1. pc[p] = "store" /\ pc'[p] \in {"shredSecret", "key"} /\ cont'[p] = cont[p]
    BY <1>6, StoreDoes
  <2>. QED
    BY <1>1, <2>1 DEF Placed
<1>7. CASE Key(p)
  BY <1>1, <1>7, KeyDoes DEF Placed
<1>8. CASE KeyTruncate(p)
  BY <1>1, <1>8, KeyTruncateDoes DEF Placed
<1>9. CASE KeyWrite(p)
  BY <1>1, <1>9, KeyWriteDoes DEF Placed
<1>10. CASE SecretTruncate(p)
  BY <1>1, <1>10, SecretTruncateDoes DEF Placed
<1>11. CASE SecretWrite(p)
  BY <1>1, <1>11, SecretWriteDoes DEF Placed
<1>12. CASE ShredSecret(p) \/ UnlinkSecret(p)
  BY <1>1, <1>12, ShredSecretDoes DEF Placed
<1>13. CASE ShredKey(p)
  BY <1>1, <1>13, ShredKeyDoes DEF Placed
<1>14. CASE UnlinkKey(p)
  BY <1>1, <1>14, UnlinkKeyDoes DEF Placed
<1>15. CASE Failed(p)
  <2>1. life.command[p] # None
    BY <1>15, FailedDoes DEF Placed
  <2>. QED
    BY <1>1, <1>15, <2>1, FailedDoes, AfterLoadPlace DEF Placed
<1>16. CASE Write(p)
  <2>1. life.command[p] # None
    BY <1>16, WriteDoes DEF Placed
  <2>. QED
    BY <1>1, <1>16, <2>1, WriteDoes, AfterLoadPlace DEF Placed
<1>17. CASE Truncate(p)
  BY <1>1, <1>17, TruncateDoes DEF Placed
<1>18. CASE Prompt(p)
  BY <1>1, <1>18, PromptDoes DEF Placed
<1>19. CASE Crash(p)
  BY <1>1, <1>19, CrashDoes DEF Placed, Running
<1>25. CASE Refused(p)
  <2>1. life.command[p] # None
    BY <1>25, RefusedDoes DEF Placed
  <2>. QED
    BY <1>1, <1>25, <2>1, RefusedDoes, AfterLoadPlace DEF Placed
<1>20. CASE Send(p)
  BY <1>1, <1>20, SendDoes DEF Placed
<1>21. CASE ReadSecret(p)
  BY <1>1, <1>21, ReadSecretDoes DEF Placed
<1>22. CASE Decrypt(p)
  BY <1>1, <1>22, DecryptDoes DEF Placed
<1>23. CASE KeyringGone(p)
  BY <1>1, <1>23, KeyringGoneDoes DEF Placed
<1>24. CASE Remove(p) \/ Delete(p)
  BY <1>1, <1>24, RemoveDoes, DeleteDoes DEF Placed
<1>. QED
  BY <1>3, <1>4, <1>5, <1>6, <1>7, <1>8, <1>9, <1>10, <1>11, <1>12, <1>13, <1>14, <1>15, <1>16,
     <1>17, <1>18, <1>19, <1>20, <1>21, <1>22, <1>23, <1>24, <1>25 DEF Acts, StoreSteps

-----------------------------------------------------------------------------
(* Upgrades.                                                               *)

\* The commands of an upgrade load the configuration, and run.
LEMMA UpgradeCommands ==
  ASSUME TypeOK, Upgrading, NEW p \in Procs, Placed(p)
  PROVE  /\ pc[p] \notin {"prompt", "keyringGone", "remove", "delete"}
         /\ cont[p] # "init" /\ ~Shredding(p)
         /\ pc[p] # "new" => AfterLoad(p) \in {"done", "send"}
<1>1. life.command[p] \in {"load", "run", None}
  BY DEF Upgrading
<1>2. pc[p] # "new" => life.command[p] \in {"load", "run"}
  BY <1>1 DEF Placed
<1>. QED
  BY <1>1, <1>2 DEF Placed, Shredding, AfterLoad, None

\* The keyring gets the one password there is, or nothing.
LEMMA KeyringGains ==
  ASSUME TypeOK, Upgrading, OnePassword, NEW p \in Procs, Placed(p), Acts(p)
  PROVE  keyring' = keyring \/ (keyring' = "old" /\ Store(p))
<1>1. CASE Store(p)
  <2>1. pc[p] = "store" /\ (keyring' = keyring \/ keyring' = storing[p])
    BY <1>1, StoreDoes
  <2>2. cont[p] = "migrate"
    BY <2>1, UpgradeCommands DEF Placed
  <2>3. storing[p] = "old"
    BY <2>1, <2>2 DEF OnePassword, Upgraded
  <2>. QED
    BY <1>1, <2>1, <2>3
<1>2. CASE KeyringGone(p)
  BY <1>2, KeyringGoneDoes, UpgradeCommands
<1>3. CASE ~Store(p) /\ ~KeyringGone(p)
  BY <1>3 DEF Acts, StoreSteps, files, Start, Exists, Read, Key, KeyTruncate, KeyWrite,
     SecretTruncate, SecretWrite, ShredSecret, UnlinkSecret, ShredKey, UnlinkKey, Failed, Truncate,
     Write, Prompt, Send, ReadSecret, Decrypt, Remove, Delete, Crash, Refused
<1>. QED
  BY <1>1, <1>2, <1>3

\* The configuration on disk changes where it is saved.
LEMMA ConfigChanges ==
  ASSUME NEW p \in Procs, Acts(p), config' # config
  PROVE  Truncate(p) \/ Write(p) \/ Remove(p) \/ Delete(p)
BY DEF Acts, StoreSteps, files, Start, Exists, Read, Store, Key, KeyTruncate, KeyWrite,
   SecretTruncate, SecretWrite, ShredSecret, UnlinkSecret, ShredKey, UnlinkKey, Failed,
   Prompt, Send, ReadSecret, Decrypt, KeyringGone, Crash, Refused

LEMMA SecretChanges ==
  ASSUME NEW p \in Procs, Acts(p), secret' # secret
  PROVE  SecretTruncate(p) \/ SecretWrite(p) \/ ShredSecret(p) \/ UnlinkSecret(p) \/ Remove(p)
BY DEF Acts, StoreSteps, files, Start, Exists, Read, Store, Key, KeyTruncate, KeyWrite,
   ShredKey, UnlinkKey, Failed, Truncate, Write, Prompt, Send, ReadSecret, Decrypt, KeyringGone,
   Delete, Crash, Refused

LEMMA KeyChanges ==
  ASSUME NEW p \in Procs, Acts(p), key' # key
  PROVE  KeyTruncate(p) \/ KeyWrite(p) \/ ShredKey(p) \/ UnlinkKey(p) \/ Remove(p)
BY DEF Acts, StoreSteps, files, Start, Exists, Read, Store, Key, SecretTruncate, SecretWrite,
   ShredSecret, UnlinkSecret, Failed, Truncate, Write, Prompt, Send, ReadSecret, Decrypt,
   KeyringGone, Delete, Crash, Refused

LEMMA LifeStays ==
  ASSUME NEW p \in Procs, Acts(p)
  PROVE  life' = life
BY DEF Acts, StoreSteps, Start, Exists, Read, Store, Key, KeyTruncate, KeyWrite,
   SecretTruncate, SecretWrite, ShredSecret, UnlinkSecret, ShredKey, UnlinkKey, Failed, Truncate,
   Write, Prompt, Send, ReadSecret, Decrypt, KeyringGone, Remove, Delete, Crash, Refused

LEMMA EmptyValues ==
  /\ Defaults.user = FALSE /\ Defaults.pw = None /\ Defaults.backend = ""
  /\ TornSecret.state = "torn" /\ TornSecret.pw = None
  /\ NoSecret.state = "absent" /\ NoSecret.pw = None
  /\ Removed.state = "absent" /\ Removed.data = Defaults
BY DEF Defaults, TornSecret, NoSecret, Removed

\* What is in the stores during an upgrade.
LEMMA OneInStores ==
  ASSUME TypeOK, Upgrading, OnePassword, NEW p \in Procs, Placed(p), Acts(p)
  PROVE  /\ config'.state # "absent" /\ config'.data.pw \in {None, "old"}
         /\ config'.data.pw # None => config'.data.user /\ config'.data.backend = ""
         /\ keyring' \in {None, "old"} /\ secret'.pw \in {None, "old"}
<1>. USE DEF None
<1>1. /\ config'.state # "absent" /\ config'.data.pw \in {None, "old"}
      /\ config'.data.pw # None => config'.data.user /\ config'.data.backend = ""
  <2>1. CASE config' = config
    BY <2>1 DEF OnePassword
  <2>2. CASE Truncate(p)
    BY <2>2, TruncateDoes, EmptyValues
  <2>3. CASE Write(p)
    <3>1. pc[p] \in SavePlaces /\ config'.state = "ok" /\ config'.data = mem[p]
      BY <2>3, WriteDoes DEF SavePlaces
    <3>2. mem[p].pw = None
      BY <3>1 DEF OnePassword, Upgraded
    <3>. QED
      BY <3>1, <3>2
  <2>. QED
    BY <2>1, <2>2, <2>3, ConfigChanges, RemoveDoes, DeleteDoes, UpgradeCommands
<1>2. keyring' \in {None, "old"}
  BY KeyringGains DEF OnePassword
<1>3. secret'.pw \in {None, "old"}
  <2>1. CASE secret' = secret
    BY <2>1 DEF OnePassword
  <2>2. CASE SecretWrite(p)
    <3>1. pc[p] = "secretWrite" /\ secret'.pw = storing[p]
      BY <2>2, SecretWriteDoes
    <3>. QED
      BY <3>1 DEF OnePassword, Upgraded
  <2>3. CASE SecretTruncate(p) \/ ShredSecret(p) \/ UnlinkSecret(p)
    <3>1. secret' \in {secret, TornSecret, NoSecret}
      BY <2>3, SecretTruncateDoes, ShredSecretDoes
    <3>. QED
      BY <3>1, EmptyValues DEF OnePassword
  <2>. QED
    BY <2>1, <2>2, <2>3, SecretChanges, RemoveDoes, UpgradeCommands
<1>. QED
  BY <1>1, <1>2, <1>3

LEMMA UpgradedStep ==
  ASSUME TypeOK, Upgrading, OnePassword, NEW p \in Procs, Placed(p), Placed(p)', Acts(p)
  PROVE  Upgraded(p)'
<1>. USE DEF None, KeyPlaces, FilePlaces, SavePlaces, ShredPlaces, local, Said
<1>1. life' = life /\ Upgraded(p)
  BY LifeStays DEF OnePassword
<1>2. keyring = "old" => keyring' = "old"
  BY KeyringGains
<1>3. cont[p] # "init" /\ ~Shredding(p)
  BY UpgradeCommands
<1>4. CASE Start(p) \/ Exists(p)
  <2>1. /\ pc[p] \in {"new", "exists"} /\ pc'[p] \in {"exists", "read"} /\ cont'[p] = cont[p]
        /\ mem'[p] = mem[p] /\ storing'[p] = storing[p]
    BY <1>4, StartDoes, ExistsDoes DEF OnePassword
  <2>. QED
    BY <1>1, <2>1 DEF Upgraded
<1>5. CASE Read(p)
  <2>1. pc[p] = "read" /\ cont[p] = "none" /\ AfterLoad(p) \in {"done", "send"}
    BY <1>5, ReadDoes, UpgradeCommands DEF Placed
  <2>2. mem'[p].pw \in {None, "old"} /\ (mem'[p].pw # None => mem'[p].user /\ mem'[p].backend = "")
    BY <1>5, ReadDoes, EmptyValues DEF OnePassword
  <2>3. ToMigrate(mem'[p]) => mem'[p].pw # None
    BY DEF ToMigrate
  <2>. QED
    BY <1>1, <1>5, <2>1, <2>2, <2>3, ReadDoes DEF Upgraded
<1>6. CASE Store(p)
  <2>1. pc[p] = "store" /\ cont[p] = "migrate"
    BY <1>3, <1>6, StoreDoes DEF Placed
  <2>. QED
    BY <1>1, <1>6, <2>1, StoreDoes DEF Upgraded
<1>7. CASE Key(p)
  BY <1>1, <1>7, KeyDoes DEF Upgraded, Placed
<1>8. CASE KeyTruncate(p)
  BY <1>1, <1>8, KeyTruncateDoes DEF Upgraded
<1>9. CASE KeyWrite(p)
  BY <1>1, <1>9, KeyWriteDoes DEF Upgraded
<1>10. CASE SecretTruncate(p)
  BY <1>1, <1>10, SecretTruncateDoes DEF Upgraded
<1>11. CASE SecretWrite(p)
  BY <1>1, <1>11, SecretWriteDoes DEF Upgraded
<1>12. CASE ShredSecret(p) \/ UnlinkSecret(p)
  BY <1>1, <1>2, <1>12, ShredSecretDoes DEF Upgraded
<1>13. CASE ShredKey(p)
  BY <1>1, <1>2, <1>13, ShredKeyDoes DEF Upgraded
<1>14. CASE UnlinkKey(p)
  BY <1>1, <1>2, <1>3, <1>14, UnlinkKeyDoes DEF Upgraded
<1>15. CASE Failed(p)
  <2>1. pc[p] = "failed" /\ AfterLoad(p) \in {"done", "send"}
    BY <1>15, FailedDoes, UpgradeCommands
  <2>. QED
    BY <1>1, <1>3, <1>15, <2>1, FailedDoes DEF Upgraded
<1>16. CASE Write(p)
  <2>1. pc[p] = "write" /\ AfterLoad(p) \in {"done", "send"}
    BY <1>16, WriteDoes, UpgradeCommands
  <2>. QED
    BY <1>1, <1>3, <1>16, <2>1, WriteDoes DEF Upgraded
<1>17. CASE Truncate(p)
  BY <1>1, <1>17, TruncateDoes DEF Upgraded
<1>18. CASE Crash(p)
  BY <1>1, <1>18, CrashDoes DEF Upgraded
<1>23. CASE Refused(p)
  <2>1. AfterLoad(p) \in {"done", "send"} \/ pc[p] = "new"
    BY UpgradeCommands
  <2>. QED
    BY <1>1, <1>3, <1>23, <2>1, RefusedDoes DEF Upgraded
<1>19. CASE Send(p)
  BY <1>1, <1>19, SendDoes DEF Upgraded, Found
<1>20. CASE ReadSecret(p)
  BY <1>1, <1>20, ReadSecretDoes DEF Upgraded, Placed
<1>21. CASE Decrypt(p)
  BY <1>1, <1>21, DecryptDoes DEF Upgraded
<1>22. ~Prompt(p) /\ ~KeyringGone(p) /\ ~Remove(p) /\ ~Delete(p)
  BY UpgradeCommands, PromptDoes, KeyringGoneDoes, RemoveDoes, DeleteDoes
<1>. QED
  BY <1>4, <1>5, <1>6, <1>7, <1>8, <1>9, <1>10, <1>11, <1>12, <1>13, <1>14, <1>15, <1>16,
     <1>17, <1>18, <1>19, <1>20, <1>21, <1>22, <1>23 DEF Acts, StoreSteps

LEMMA OnePasswordStep ==
  ASSUME TypeOK, Upgrading, OnePassword, NEW p \in Procs, Placed(p), Placed(p)', Acts(p)
  PROVE  OnePassword'
<1>1. keyring = "old" => keyring' = "old"
  BY KeyringGains
<1>2. ASSUME NEW q \in Procs \ {p} PROVE Upgraded(q)'
  <2>1. /\ pc'[q] = pc[q] /\ cont'[q] = cont[q] /\ mem'[q] = mem[q] /\ storing'[q] = storing[q]
        /\ life' = life /\ Upgraded(q)
    BY OthersStay, LifeStays DEF OnePassword
  <2>. QED
    BY <1>1, <2>1 DEF Upgraded
<1>. QED
  BY <1>2, OneInStores, UpgradedStep DEF OnePassword

LEMMA ScrubStep ==
  ASSUME TypeOK, Upgrading, OnePassword, Scrub, NEW p \in Procs, Placed(p), Acts(p)
  PROVE  Scrub'
<1>. SUFFICES ASSUME NEW q \in Procs, pc'[q] = "write" \/ cont'[q] = "migrated"
              PROVE  config'.data.pw = None
  BY DEF Scrub
<1>1. CASE Truncate(p)
  BY <1>1, TruncateDoes, EmptyValues
<1>2. CASE Write(p)
  <2>1. pc[p] \in SavePlaces /\ config'.data = mem[p]
    BY <1>2, WriteDoes DEF SavePlaces
  <2>. QED
    BY <2>1 DEF OnePassword, Upgraded
<1>3. CASE ~Truncate(p) /\ ~Write(p)
  <2>1. config' = config
    BY <1>3, ConfigChanges, RemoveDoes, DeleteDoes, UpgradeCommands
  <2>2. CASE q # p
    BY <2>1, <2>2, OthersStay DEF Scrub
  <2>3. CASE q = p
    <3>1. pc'[p] # "write"
      <4>1. AfterLoad(p) \in {"done", "send"} \/ pc[p] = "new"
        BY UpgradeCommands
      <4>2. CASE Read(p) \/ Failed(p)
        BY <4>1, <4>2, ReadDoes, FailedDoes
      <4>3. CASE Start(p) \/ Exists(p) \/ Store(p) \/ Key(p) \/ KeyTruncate(p) \/ KeyWrite(p)
        BY <4>3, StartDoes, ExistsDoes, StoreDoes, KeyDoes, KeyTruncateDoes, KeyWriteDoes
      <4>4. CASE SecretTruncate(p) \/ SecretWrite(p) \/ ShredSecret(p) \/ UnlinkSecret(p)
                   \/ ShredKey(p) \/ UnlinkKey(p)
        BY <4>4, SecretTruncateDoes, SecretWriteDoes, ShredSecretDoes, ShredKeyDoes, UnlinkKeyDoes
      <4>5. CASE Prompt(p) \/ KeyringGone(p) \/ Remove(p) \/ Delete(p)
        BY <4>5, PromptDoes, KeyringGoneDoes, RemoveDoes, DeleteDoes
      <4>6. CASE Send(p) \/ ReadSecret(p) \/ Decrypt(p) \/ Crash(p)
        BY <4>6, SendDoes, ReadSecretDoes, DecryptDoes, CrashDoes
      <4>7. CASE Refused(p)
        BY <4>1, <4>7, RefusedDoes
      <4>. QED
        BY <1>3, <4>2, <4>3, <4>4, <4>5, <4>6, <4>7 DEF Acts, StoreSteps
    <3>2. cont'[p] = "migrated" => cont[p] = "migrated"
      <4>1. CASE cont' = cont
        BY <4>1
      <4>2. CASE Exists(p) \/ Read(p) \/ Failed(p) \/ Prompt(p) \/ ReadSecret(p) \/ Refused(p)
        BY <4>2, ExistsDoes, ReadDoes, FailedDoes, PromptDoes, ReadSecretDoes, RefusedDoes DEF None
      <4>3. CASE cont' # cont
        BY <1>3, <4>2, <4>3 DEF Acts, StoreSteps, local, Start, Store, Key, KeyTruncate, KeyWrite,
           SecretTruncate, SecretWrite, ShredSecret, UnlinkSecret, ShredKey, UnlinkKey, Send,
           Decrypt, KeyringGone, Remove, Delete, Crash
      <4>. QED
        BY <4>1, <4>3
    <3>. QED
      BY <2>1, <2>3, <3>1, <3>2 DEF Scrub
  <2>. QED
    BY <2>2, <2>3
<1>. QED
  BY <1>1, <1>2, <1>3

\* Only the process without a keyring makes a key or writes secret.enc, unless it decrypts.
LEMMA OnlyOneInFile ==
  ASSUME Upgrading, OnePassword, NEW f \in Procs, OneWithout(f), NEW p \in Procs, TypeOK,
         Placed(p), pc[p] \in FilePlaces \cup {"failed"}
  PROVE  cont[p] = "decrypt" \/ p = f
<1>1. cont[p] \in {"migrate", "decrypt"}
  BY UpgradeCommands DEF Placed, FilePlaces, KeyPlaces
<1>. QED
  BY <1>1 DEF OnePassword, Upgraded, OneWithout

\* Before f has written secret.enc.
LEMMA BeforeStep ==
  ASSUME TypeOK, Upgrading, OnePassword, NEW f \in Procs, OneWithout(f),
         keyring # "old", Before(f), NEW p \in Procs, Placed(p), Placed(p)', Acts(p)
  PROVE  Handed(f)'
<1>. SUFFICES ASSUME keyring' # "old" PROVE Before(f)' \/ After(f)'
  BY DEF Handed
<1>. USE DEF None, KeyPlaces, FilePlaces, SavePlaces, ShredPlaces, Said
<1>1. mem[p].backend = "" /\ pc[p] \notin SavePlaces \cup ShredPlaces \cup {"readSecret", "decrypt"}
      /\ cont[p] # "decrypt" /\ Upgraded(p)
  BY DEF Before, OnePassword, Upgraded, Placed
<1>2. pc[p] \in FilePlaces \cup {"failed"} => p = f /\ cont[p] = "migrate"
  BY <1>1, OnlyOneInFile, UpgradeCommands DEF Placed
<1>3. config' = config
  BY <1>1, ConfigChanges, TruncateDoes, WriteDoes, RemoveDoes, DeleteDoes, UpgradeCommands
<1>4. \A q \in Procs \ {p} : mem'[q].backend = "" /\ pc'[q] \notin SavePlaces /\ cont'[q] # "decrypt"
  BY OthersStay DEF Before
<1>5. p # f => pc'[f] = pc[f] /\ myKey'[f] = myKey[f]
  BY OthersStay
<1>6. CASE SecretWrite(p)
  <2>1. p = f /\ myKey[f] = key /\ key # NoKey /\ storing[f] = "old"
    <3>1. pc[p] = "secretWrite" /\ p = f /\ cont[p] = "migrate"
      BY <1>2, <1>6, SecretWriteDoes
    <3>2. storing[p] = "old"
      BY <1>1, <3>1 DEF Upgraded
    <3>. QED
      BY <3>1, <3>2 DEF Before
  <2>2. InFile'
    BY <1>6, <2>1, SecretWriteDoes DEF InFile
  <2>3. pc'[f] = "truncate" /\ cont'[f] = cont[f]
    BY <1>6, <2>1, SecretWriteDoes
  <2>4. \A q \in Procs : cont'[q] # "decrypt"
    BY <1>2, <1>4, <1>6, <2>1, <2>3, SecretWriteDoes
  <2>. QED
    BY <2>2, <2>3, <2>4 DEF After
<1>7. CASE ~SecretWrite(p)
  <2>1. mem'[p].backend = ""
    <3>1. CASE Read(p)
      <4>1. config.data.backend = "" /\ mem'[p] \in {config.data, Defaults}
        BY <3>1, ReadDoes DEF Before, OnePassword
      <4>. QED
        BY <4>1, EmptyValues
    <3>2. CASE ~Read(p)
      <4>1. ~UnlinkKey(p) /\ ~Prompt(p)
        BY <1>1, UnlinkKeyDoes, PromptDoes, UpgradeCommands
      <4>2. mem' = mem
        <5>1. CASE Failed(p)
          BY <5>1, FailedDoes, UpgradeCommands
        <5>2. CASE ~Failed(p)
          BY <1>7, <3>2, <4>1, <5>2 DEF Acts, StoreSteps, local, Start, Exists, Store, Key, KeyTruncate,
             KeyWrite, SecretTruncate, ShredSecret, UnlinkSecret, ShredKey, Truncate, Write, Send,
             ReadSecret, Decrypt, KeyringGone, Remove, Delete, Crash, Refused
        <5>. QED
          BY <5>1, <5>2
      <4>. QED
        BY <1>1, <4>2
    <3>. QED
      BY <3>1, <3>2
  <2>2. AfterLoad(p) \in {"done", "send"} \/ pc[p] = "new"
    BY UpgradeCommands
  <2>3. pc'[p] \notin SavePlaces /\ cont'[p] # "decrypt"
        /\ (p = f => /\ pc'[f] = "keyWrite" => myKey'[f] # NoKey
                     /\ pc'[f] \in {"secretTruncate", "secretWrite"}
                          => myKey'[f] = key' /\ key' # NoKey)
        /\ (key' # key => p = f)
    <3>1. CASE Start(p) \/ Exists(p) \/ Crash(p)
      BY <1>1, <3>1, StartDoes, ExistsDoes, CrashDoes, KeyChanges DEF OnePassword, local, files
    <3>10. CASE Refused(p)
      BY <1>1, <3>10, RefusedDoes DEF files
    <3>2. CASE Read(p) \/ Failed(p)
      BY <1>1, <2>2, <3>2, ReadDoes, FailedDoes, UpgradeCommands DEF files
    <3>3. CASE Store(p)
      BY <1>1, <3>3, StoreDoes DEF local
    <3>4. CASE Key(p)
      BY <1>1, <1>2, <3>4, KeyDoes DEF files
    <3>5. CASE KeyTruncate(p) \/ KeyWrite(p)
      BY <1>1, <1>2, <3>5, KeyTruncateDoes, KeyWriteDoes DEF Before, local
    <3>6. CASE SecretTruncate(p)
      BY <1>1, <1>2, <3>6, SecretTruncateDoes DEF Before, local
    <3>7. CASE Send(p)
      BY <1>1, <3>7, SendDoes DEF Found, files
    <3>8. ~ShredSecret(p) /\ ~UnlinkSecret(p) /\ ~ShredKey(p) /\ ~UnlinkKey(p) /\ ~Truncate(p)
          /\ ~Write(p) /\ ~ReadSecret(p) /\ ~Decrypt(p)
      BY <1>1, ShredSecretDoes, ShredKeyDoes, UnlinkKeyDoes, TruncateDoes, WriteDoes, ReadSecretDoes,
         DecryptDoes
    <3>9. ~Prompt(p) /\ ~KeyringGone(p) /\ ~Remove(p) /\ ~Delete(p)
      BY UpgradeCommands, PromptDoes, KeyringGoneDoes, RemoveDoes, DeleteDoes
    <3>. QED
      BY <1>7, <3>1, <3>2, <3>3, <3>4, <3>5, <3>6, <3>7, <3>8, <3>9, <3>10 DEF Acts, StoreSteps
  <2>4. /\ pc'[f] = "keyWrite" => myKey'[f] # NoKey
        /\ pc'[f] \in {"secretTruncate", "secretWrite"} => myKey'[f] = key' /\ key' # NoKey
    BY <1>5, <2>3 DEF Before
  <2>. QED
    BY <1>3, <1>4, <2>1, <2>3, <2>4 DEF Before
<1>. QED
  BY <1>6, <1>7

\* After f has written secret.enc nobody touches it or the key.
LEMMA AfterStep ==
  ASSUME TypeOK, Upgrading, OnePassword, NEW f \in Procs, OneWithout(f),
         keyring # "old", After(f), NEW p \in Procs, Placed(p), Placed(p)', Acts(p)
  PROVE  Handed(f)'
<1>. SUFFICES ASSUME keyring' # "old" PROVE After(f)'
  BY DEF Handed
<1>. USE DEF None, KeyPlaces, FilePlaces, SavePlaces, ShredPlaces
<1>1. /\ pc[p] \notin ShredPlaces
      /\ pc[p] \in FilePlaces \cup {"failed"} => cont[p] = "decrypt"
      /\ pc[p] \notin {"keyTruncate", "keyWrite", "secretTruncate", "secretWrite"}
  <2>1. pc[p] \notin ShredPlaces
    BY DEF OnePassword, Upgraded
  <2>2. pc[p] \in FilePlaces \cup {"failed"} => cont[p] = "decrypt"
    BY OnlyOneInFile DEF After
  <2>3. pc[p] \notin {"secretTruncate", "secretWrite"}
    BY <2>2 DEF Placed
  <2>. QED
    BY <2>1, <2>2, <2>3 DEF After
<1>2. secret' = secret
  BY <1>1, SecretChanges, SecretTruncateDoes, SecretWriteDoes, ShredSecretDoes, RemoveDoes,
     UpgradeCommands
<1>3. key' = key
  BY <1>1, KeyChanges, KeyTruncateDoes, KeyWriteDoes, ShredKeyDoes, UnlinkKeyDoes, RemoveDoes,
     UpgradeCommands
<1>4. InFile'
  BY <1>2, <1>3 DEF After, InFile
<1>5. cont'[p] = "decrypt" => pc'[p] \notin {"keyTruncate", "keyWrite"}
  <2>1. CASE Key(p)
    BY <2>1, KeyDoes DEF After, InFile
  <2>2. CASE KeyTruncate(p)
    BY <1>1, <2>2, KeyTruncateDoes
  <2>3. CASE ~Key(p) /\ ~KeyTruncate(p)
    <3>1. AfterLoad(p) \in {"done", "send"} \/ pc[p] = "new"
      BY UpgradeCommands
    <3>2. CASE Read(p) \/ Failed(p) \/ Write(p) \/ Refused(p)
      BY <3>1, <3>2, ReadDoes, FailedDoes, WriteDoes, RefusedDoes
    <3>3. CASE Start(p) \/ Exists(p) \/ Store(p) \/ KeyWrite(p) \/ SecretTruncate(p) \/ SecretWrite(p)
      BY <3>3, StartDoes, ExistsDoes, StoreDoes, KeyWriteDoes, SecretTruncateDoes, SecretWriteDoes
    <3>4. CASE ShredSecret(p) \/ UnlinkSecret(p) \/ ShredKey(p) \/ UnlinkKey(p) \/ Truncate(p)
                 \/ Prompt(p)
      BY <3>4, ShredSecretDoes, ShredKeyDoes, UnlinkKeyDoes, TruncateDoes, PromptDoes
    <3>5. CASE Send(p) \/ ReadSecret(p) \/ Decrypt(p) \/ Crash(p) \/ KeyringGone(p) \/ Remove(p)
                 \/ Delete(p)
      BY <3>5, SendDoes, ReadSecretDoes, DecryptDoes, CrashDoes, KeyringGoneDoes, RemoveDoes,
         DeleteDoes
    <3>. QED
      BY <2>3, <3>2, <3>3, <3>4, <3>5 DEF Acts, StoreSteps
  <2>. QED
    BY <2>1, <2>2, <2>3
<1>6. \A q \in Procs : cont'[q] = "decrypt" => pc'[q] \notin {"keyTruncate", "keyWrite"}
  BY <1>5, OthersStay DEF After
<1>7. /\ pc'[f] \notin {"new", "exists", "read", "store"}
      /\ pc'[f] \in FilePlaces \cup {"failed"} => cont'[f] = "decrypt"
  <2>1. CASE p # f
    BY <2>1, OthersStay DEF After
  <2>2. CASE p = f
    <3>1. AfterLoad(p) \in {"done", "send"} \/ pc[p] = "new"
      BY UpgradeCommands
    <3>2. ~Start(p) /\ ~Exists(p) /\ ~Read(p) /\ ~Store(p)
      BY <2>2, StartDoes, ExistsDoes, ReadDoes, StoreDoes DEF After
    <3>3. CASE Failed(p) \/ Write(p) \/ Refused(p)
      BY <1>1, <2>2, <3>1, <3>3, FailedDoes, WriteDoes, RefusedDoes DEF After
    <3>4. CASE Key(p)
      BY <1>1, <2>2, <3>4, KeyDoes DEF After
    <3>5. CASE KeyTruncate(p) \/ KeyWrite(p) \/ SecretTruncate(p) \/ SecretWrite(p) \/ ShredSecret(p)
                 \/ UnlinkSecret(p) \/ ShredKey(p) \/ UnlinkKey(p)
      BY <1>1, <3>5, KeyTruncateDoes, KeyWriteDoes, SecretTruncateDoes, SecretWriteDoes,
         ShredSecretDoes, ShredKeyDoes, UnlinkKeyDoes
    <3>6. CASE Truncate(p) \/ Crash(p) \/ Send(p) \/ Decrypt(p)
      BY <2>2, <3>6, TruncateDoes, CrashDoes, SendDoes, DecryptDoes
    <3>7. CASE ReadSecret(p)
      BY <2>2, <3>7, ReadSecretDoes
    <3>8. ~Prompt(p) /\ ~KeyringGone(p) /\ ~Remove(p) /\ ~Delete(p)
      BY UpgradeCommands, PromptDoes, KeyringGoneDoes, RemoveDoes, DeleteDoes
    <3>. QED
      BY <3>2, <3>3, <3>4, <3>5, <3>6, <3>7, <3>8 DEF Acts, StoreSteps
  <2>. QED
    BY <2>1, <2>2
<1>. QED
  BY <1>4, <1>6, <1>7 DEF After

LEMMA UpgradeInit == Init => Upgrade
<1>. SUFFICES ASSUME Init, Upgrading PROVE OnePassword /\ Scrub /\ \A f \in Procs : Before(f)
  BY DEF Upgrade, Handed
<1>. USE DEF None
<1>1. config.state = "ok" /\ config.data.pw = "old" /\ config.data.user /\ config.data.backend = ""
  BY DEF Init, Upgrading
<1>2. keyring = None /\ secret.pw = None
  BY EmptyValues DEF Init
<1>3. ASSUME NEW p \in Procs
      PROVE  /\ pc[p] = "new" /\ cont[p] = None /\ mem[p].pw = None /\ mem[p].backend = ""
             /\ storing[p] = None
  BY EmptyValues DEF Init
<1>4. OnePassword
  BY <1>1, <1>2, <1>3 DEF OnePassword, Upgraded, FilePlaces, KeyPlaces, ShredPlaces, SavePlaces
<1>5. Scrub
  BY <1>3 DEF Scrub
<1>6. ASSUME NEW f \in Procs PROVE Before(f)
  BY <1>1, <1>3 DEF Before, SavePlaces
<1>. QED
  BY <1>4, <1>5, <1>6

LEMMA UpgradeStep ==
  ASSUME TypeOK, Upgrade, NEW p \in Procs, Placed(p), Placed(p)', Acts(p)
  PROVE  Upgrade'
<1>1. life' = life
  BY LifeStays
<1>. SUFFICES ASSUME Upgrading
              PROVE  OnePassword' /\ Scrub' /\ \A f \in Procs : OneWithout(f) => Handed(f)'
  BY <1>1 DEF Upgrade, Upgrading, OneWithout
<1>2. OnePassword /\ Scrub /\ \A f \in Procs : OneWithout(f) => Handed(f)
  BY DEF Upgrade
<1>3. OnePassword'
  BY <1>2, OnePasswordStep
<1>4. Scrub'
  BY <1>2, ScrubStep
<1>5. ASSUME NEW f \in Procs, OneWithout(f) PROVE Handed(f)'
  <2>1. CASE keyring = "old"
    BY <1>2, <2>1, KeyringGains DEF Handed
  <2>2. CASE keyring # "old" /\ Before(f)
    BY <1>2, <1>5, <2>2, BeforeStep
  <2>3. CASE keyring # "old" /\ After(f)
    BY <1>2, <1>5, <2>3, AfterStep
  <2>. QED
    BY <1>2, <1>5, <2>1, <2>2, <2>3 DEF Handed
<1>. QED
  BY <1>3, <1>4, <1>5

-----------------------------------------------------------------------------
(* One command after another.                                              *)

LEMMA ActsRuns ==
  ASSUME TypeOK, NEW p \in Procs, Acts(p), ~Start(p)
  PROVE  Running(p)
<1>1. CASE Crash(p) \/ Refused(p)
  BY <1>1, RefusedDoes DEF Crash
<1>2. CASE ~Crash(p) /\ ~Refused(p)
  BY <1>2 DEF Acts, StoreSteps, Exists, Read, Store, Key, KeyTruncate, KeyWrite, SecretTruncate,
     SecretWrite, ShredSecret, UnlinkSecret, ShredKey, UnlinkKey, Failed, Truncate, Write, Prompt,
     Send, ReadSecret, Decrypt, KeyringGone, Remove, Delete, Step, Running, Over
<1>. QED
  BY <1>1, <1>2

\* Whoever takes a step is the only one that runs.
LEMMA OthersRest ==
  ASSUME TypeOK, OneByOne, Alone, NEW p \in Procs, Acts(p), NEW q \in Procs \ {p}
  PROVE  ~Running(q) /\ ~Running(q)'
<1>1. ~Running(q)
  <2>1. CASE Start(p)
    BY <2>1, StartDoes DEF OneByOne, Idle
  <2>2. CASE ~Start(p)
    BY <2>2, ActsRuns DEF Alone
  <2>. QED
    BY <2>1, <2>2
<1>. QED
  BY <1>1, OthersStay DEF Running

LEMMA AloneStep ==
  ASSUME TypeOK, OneByOne, Alone, NEW p \in Procs, Acts(p)
  PROVE  Alone'
BY OthersRest DEF Alone

LEMMA NamedStep ==
  ASSUME TypeOK, Named, NEW p \in Procs, Placed(p), Acts(p)
  PROVE  Named'
<1>. USE DEF None, FilePlaces, KeyPlaces, ShredPlaces
<1>1. config'.data.pw # None => config'.data.user
  <2>1. CASE Write(p)
    BY <2>1, WriteDoes DEF Named
  <2>2. CASE Truncate(p)
    BY <2>2, TruncateDoes, EmptyValues
  <2>3. CASE Remove(p) \/ Delete(p)
    BY <2>3, RemoveDoes, DeleteDoes, EmptyValues
  <2>. QED
    BY <2>1, <2>2, <2>3, ConfigChanges DEF Named
<1>2. /\ mem'[p].pw # None => mem'[p].user
      /\ /\ pc'[p] \in {"store", "failed"} \cup FilePlaces \cup ShredPlaces
         /\ cont'[p] \in {"migrate", "init"}
         => mem'[p].user
  <2>. DEFINE Goal == /\ mem'[p].pw # None => mem'[p].user
                      /\ /\ pc'[p] \in {"store", "failed"} \cup FilePlaces \cup ShredPlaces
                         /\ cont'[p] \in {"migrate", "init"}
                         => mem'[p].user
              Now == /\ mem[p].pw # None => mem[p].user
                     /\ /\ pc[p] \in {"store", "failed"} \cup FilePlaces \cup ShredPlaces
                        /\ cont[p] \in {"migrate", "init"}
                        => mem[p].user
  <2>1. Now
    BY DEF Named
  <2>2. AfterLoad(p) \in {"done", "send", "prompt", "keyringGone", "delete"} \/ pc[p] = "new"
    BY AfterLoadPlace DEF Placed
  <2>3. CASE Read(p)
    <3>1. mem'[p].pw # None => mem'[p].user
      BY <2>3, ReadDoes, EmptyValues DEF Named
    <3>2. ToMigrate(mem'[p]) => mem'[p].pw # None
      BY DEF ToMigrate
    <3>. QED
      BY <2>2, <2>3, <3>1, <3>2, ReadDoes
  <2>4. CASE Start(p) \/ Exists(p) \/ Crash(p)
    BY <2>1, <2>4, StartDoes, ExistsDoes, CrashDoes DEF local
  <2>5. CASE Store(p)
    BY <2>1, <2>5, StoreDoes DEF local
  <2>6. CASE Key(p)
    BY <2>1, <2>6, KeyDoes DEF local
  <2>7. CASE KeyTruncate(p) \/ KeyWrite(p) \/ SecretTruncate(p)
    BY <2>1, <2>7, KeyTruncateDoes, KeyWriteDoes, SecretTruncateDoes DEF local
  <2>8. CASE SecretWrite(p) \/ ShredSecret(p) \/ UnlinkSecret(p) \/ ShredKey(p)
    BY <2>1, <2>8, SecretWriteDoes, ShredSecretDoes, ShredKeyDoes DEF local
  <2>9. CASE UnlinkKey(p)
    BY <2>1, <2>9, UnlinkKeyDoes
  <2>10. CASE Failed(p)
    <3>1. cont[p] = "init" => mem'[p].user = mem[p].user
      <4>1. cont[p] = "init" => mem'[p] = [mem[p] EXCEPT !.pw = storing[p]]
        BY <2>10 DEF Failed, TypeOK
      <4>2. mem[p] \in Data
        BY DEF TypeOK
      <4>. QED
        BY <4>1, <4>2 DEF Data
    <3>. QED
      BY <2>1, <2>2, <2>10, <3>1, FailedDoes
  <2>11. CASE Truncate(p) \/ Write(p) \/ Refused(p)
    BY <2>1, <2>2, <2>11, TruncateDoes, WriteDoes, RefusedDoes DEF local
  <2>12. CASE Prompt(p)
    BY <2>12, PromptDoes
  <2>13. CASE Send(p) \/ ReadSecret(p) \/ Decrypt(p)
    BY <2>1, <2>13, SendDoes, ReadSecretDoes, DecryptDoes
  <2>14. CASE KeyringGone(p) \/ Remove(p) \/ Delete(p)
    BY <2>1, <2>14, KeyringGoneDoes, RemoveDoes, DeleteDoes DEF Placed, local, Said
  <2>. QED
    BY <2>3, <2>4, <2>5, <2>6, <2>7, <2>8, <2>9, <2>10, <2>11, <2>12, <2>13, <2>14
       DEF Acts, StoreSteps
<1>. QED
  BY <1>1, <1>2, OthersStay DEF Named

\* A process with a keyring that works never comes to the file.
LEMMA ToTheFile ==
  ASSUME TypeOK, OneByOne, Named, OneStore, NEW p \in Procs, Placed(p), Acts(p)
  PROVE  pc'[p] \in FilePlaces => ~Works
<1>. USE DEF None, FilePlaces, KeyPlaces, local
<1>1. AfterLoad(p) \in {"done", "send", "prompt", "keyringGone", "delete"} \/ pc[p] = "new"
  BY AfterLoadPlace DEF Placed
<1>2. pc[p] \in FilePlaces => ~Works
  BY DEF OneStore
<1>3. CASE Store(p)
  <2>1. pc[p] = "store" /\ mem[p].user
    BY <1>3, StoreDoes DEF Named, Placed
  <2>. QED
    BY <1>3, <2>1, StoreDoes DEF OneByOne, Works
<1>4. CASE ReadSecret(p)
  BY <1>4, ReadSecretDoes, EmptyValues DEF OneStore
<1>5. CASE Start(p) \/ Exists(p) \/ Crash(p)
  BY <1>5, StartDoes, ExistsDoes, CrashDoes
<1>6. CASE Read(p) \/ Failed(p)
  BY <1>1, <1>6, ReadDoes, FailedDoes
<1>7. CASE Key(p) \/ KeyTruncate(p) \/ KeyWrite(p) \/ SecretTruncate(p)
  BY <1>2, <1>7, KeyDoes, KeyTruncateDoes, KeyWriteDoes, SecretTruncateDoes
<1>8. CASE SecretWrite(p) \/ ShredSecret(p) \/ UnlinkSecret(p) \/ ShredKey(p) \/ UnlinkKey(p)
  BY <1>8, SecretWriteDoes, ShredSecretDoes, ShredKeyDoes, UnlinkKeyDoes
<1>9. CASE Truncate(p) \/ Write(p) \/ Refused(p)
  BY <1>1, <1>9, TruncateDoes, WriteDoes, RefusedDoes
<1>10. CASE Prompt(p) \/ Send(p) \/ Decrypt(p)
  BY <1>10, PromptDoes, SendDoes, DecryptDoes
<1>11. CASE KeyringGone(p) \/ Remove(p) \/ Delete(p)
  BY <1>11, KeyringGoneDoes, RemoveDoes, DeleteDoes
<1>. QED
  BY <1>3, <1>4, <1>5, <1>6, <1>7, <1>8, <1>9, <1>10, <1>11 DEF Acts, StoreSteps

LEMMA OneStoreStep ==
  ASSUME TypeOK, OneByOne, Named, OneStore, NEW p \in Procs, Placed(p), Acts(p)
  PROVE  OneStore'
<1>. USE DEF FilePlaces, KeyPlaces
<1>1. Works' <=> Works
  BY LifeStays DEF Works
<1>2. ASSUME ~Works PROVE keyring' = None
  <2>1. p \notin life.keyring
    BY <1>2 DEF Works
  <2>2. CASE Store(p) \/ KeyringGone(p)
    BY <1>2, <2>1, <2>2, StoreDoes, KeyringGoneDoes DEF OneStore
  <2>3. CASE ~Store(p) /\ ~KeyringGone(p)
    <3>1. keyring' = keyring
      BY <2>3 DEF Acts, StoreSteps, files, Start, Exists, Read, Key, KeyTruncate, KeyWrite,
         SecretTruncate, SecretWrite, ShredSecret, UnlinkSecret, ShredKey, UnlinkKey, Failed,
         Truncate, Write, Prompt, Send, ReadSecret, Decrypt, Remove, Delete, Crash, Refused
    <3>. QED
      BY <1>2, <3>1 DEF OneStore
  <2>. QED
    BY <2>2, <2>3
<1>3. ASSUME Works PROVE secret' = NoSecret /\ key' = NoKey
  <2>1. secret = NoSecret /\ key = NoKey /\ pc[p] \notin FilePlaces
    BY <1>3 DEF OneStore
  <2>2. secret' = NoSecret
    BY <2>1, SecretChanges, SecretTruncateDoes, SecretWriteDoes, ShredSecretDoes, RemoveDoes
  <2>3. key' = NoKey
    BY <2>1, KeyChanges, KeyTruncateDoes, KeyWriteDoes, ShredKeyDoes, UnlinkKeyDoes, RemoveDoes
  <2>. QED
    BY <2>2, <2>3
<1>4. ASSUME NEW q \in Procs, pc'[q] \in FilePlaces PROVE ~Works
  BY <1>4, ToTheFile, OthersStay DEF OneStore
<1>. QED
  BY <1>1, <1>2, <1>3, <1>4 DEF OneStore

LEMMA PurgingStep ==
  ASSUME TypeOK, OneByOne, Alone, OneStore, NEW p \in Procs, Placed(p), Acts(p), Purging(p),
         NEW q \in Procs
  PROVE  Purging(q)'
<1>. USE DEF None, ShredPlaces, local
<1>1. life' = life
  BY LifeStays
<1>2. CASE q # p
  <2>1. ~Running(q)'
    BY <1>2, OthersRest
  <2>. QED
    BY <2>1 DEF Purging, Running, Over
<1>3. SUFFICES ASSUME (pc'[p] \in ShredPlaces /\ Shredding(p)') \/ pc'[p] = "remove"
               PROVE  mem'[p].user => keyring' = None
  BY <1>2 DEF Purging
<1>4. AfterLoad(p) \in {"done", "send", "prompt", "keyringGone", "delete"} \/ pc[p] = "new"
  BY AfterLoadPlace DEF Placed
<1>5. CASE KeyringGone(p)
  <2>1. p \in life.keyring \/ keyring = None
    BY DEF OneByOne, OneStore, Works
  <2>. QED
    BY <1>5, <2>1, KeyringGoneDoes
<1>6. CASE ShredSecret(p) \/ UnlinkSecret(p) \/ ShredKey(p)
  BY <1>1, <1>3, <1>6, ShredSecretDoes, ShredKeyDoes DEF Purging, Shredding
<1>7. CASE UnlinkKey(p)
  BY <1>3, <1>7, UnlinkKeyDoes DEF Purging
<1>8. ~Store(p)
  <2>. SUFFICES ASSUME Store(p) PROVE FALSE
    OBVIOUS
  <2>1. pc[p] = "store" /\ pc'[p] \in {"shredSecret", "key"} /\ cont'[p] = cont[p]
    BY StoreDoes
  <2>2. ~Shredding(p)
    BY <2>1 DEF Placed, Shredding
  <2>. QED
    BY <1>1, <1>3, <2>1, <2>2 DEF Shredding
<1>9. ~Start(p) /\ ~Exists(p) /\ ~Crash(p) /\ ~Refused(p) /\ ~Read(p) /\ ~Failed(p)
  BY <1>3, <1>4, StartDoes, ExistsDoes, CrashDoes, RefusedDoes, ReadDoes, FailedDoes
<1>10. ~Key(p) /\ ~KeyTruncate(p) /\ ~KeyWrite(p) /\ ~SecretTruncate(p) /\ ~SecretWrite(p)
  BY <1>3, KeyDoes, KeyTruncateDoes, KeyWriteDoes, SecretTruncateDoes, SecretWriteDoes
<1>11. ~Truncate(p) /\ ~Write(p) /\ ~Prompt(p) /\ ~Send(p)
  BY <1>3, <1>4, TruncateDoes, WriteDoes, PromptDoes, SendDoes
<1>12. ~ReadSecret(p) /\ ~Decrypt(p) /\ ~Remove(p) /\ ~Delete(p)
  BY <1>3, ReadSecretDoes, DecryptDoes, RemoveDoes, DeleteDoes
<1>. QED
  BY <1>5, <1>6, <1>7, <1>8, <1>9, <1>10, <1>11, <1>12 DEF Acts, StoreSteps

\* While the key exists, its file is empty only in the hands of whoever runs.
LEMMA TornWhere ==
  ASSUME Alone, NoTornKey, NEW p \in Procs, Running(p), key = Torn
  PROVE  pc[p] \in {"keyWrite", "unlinkKey"}
BY DEF NoTornKey, Alone, Running, Over

\* The step of a command that nobody faults: what it may rely on at its next place, and
\* what it leaves behind when it is over.
Relies(p) == Running(p) => Settled(p)
Leaves(p) == ~Running(p) => GoodFor(config.data, newest)
TornHere(p) == key = Torn => pc[p] \in {"keyWrite", "unlinkKey"}

Quiet(p) ==
  /\ TypeOK /\ OneByOne /\ Named /\ OneStore /\ Placed(p) /\ TornHere(p)
  /\ config.state # "ok" => config.data = Defaults
  /\ IF pc[p] = "new" THEN GoodFor(config.data, newest) ELSE Settled(p)

Holds(p) == Relies(p) /\ Leaves(p) /\ TornHere(p)

LEMMA BeginsQuietly ==
  ASSUME NEW p \in Procs, Quiet(p), Start(p) \/ Exists(p)
  PROVE  Holds(p)'
<1>. USE DEF None, FilePlaces, KeyPlaces, SavePlaces, ShredPlaces, local, files
<1>1. TypeOK /\ Placed(p) /\ GoodFor(config.data, newest) /\ key # Torn /\ mem[p] = Defaults
  <2>1. TypeOK /\ Placed(p) /\ TornHere(p)
    BY DEF Quiet
  <2>2. pc[p] \in {"new", "exists"}
    BY <2>1, StartDoes, ExistsDoes
  <2>. QED
    BY <2>1, <2>2 DEF Quiet, Settled, Placed, TornHere
<1>2. CASE Start(p)
  <2>1. /\ pc'[p] = "exists" /\ cont'[p] = None /\ config' = config /\ newest' = newest
        /\ key' = key /\ life' = life /\ keyring' = keyring /\ secret' = secret
    BY <1>1, <1>2, StartDoes DEF Placed
  <2>2. GoodFor(config.data, newest)'
    BY <1>1, <2>1 DEF GoodFor, InStore, Works
  <2>. QED
    BY <1>1, <2>1, <2>2 DEF Holds, Relies, Leaves, TornHere, Settled, Running, Over
<1>3. CASE Exists(p)
  <2>1. /\ pc[p] = "exists" /\ config' = config /\ newest' = newest /\ mem'[p] = Defaults
        /\ key' = key /\ life' = life /\ keyring' = keyring /\ secret' = secret
        /\ \/ config.state = "absent" /\ pc'[p] = "truncate" /\ cont'[p] = "loaded"
           \/ pc'[p] = "read" /\ cont'[p] = cont[p]
    BY <1>1, <1>3, ExistsDoes
  <2>2. GoodFor(config.data, newest)'
    BY <1>1, <2>1 DEF GoodFor, InStore, Works
  <2>3. CASE pc'[p] = "truncate" /\ cont'[p] = "loaded" /\ config.state = "absent"
    <3>1. config.data = Defaults
      BY <2>3 DEF Quiet
    <3>2. GoodFor(mem[p], Target(p))'
      BY <2>1, <2>2, <2>3, <3>1 DEF Target
    <3>. QED
      BY <1>1, <2>1, <2>3, <3>2 DEF Holds, Relies, Leaves, TornHere, Settled, Running, Over
  <2>4. CASE pc'[p] = "read"
    BY <1>1, <2>1, <2>2, <2>4 DEF Holds, Relies, Leaves, TornHere, Settled, Running, Over
  <2>. QED
    BY <2>1, <2>3, <2>4
<1>. QED
  BY <1>2, <1>3

LEMMA ReadsQuietly ==
  ASSUME NEW p \in Procs, Quiet(p), Read(p)
  PROVE  Holds(p)'
<1>. USE DEF None, FilePlaces, KeyPlaces, SavePlaces, ShredPlaces
<1>1. TypeOK /\ Placed(p) /\ pc[p] = "read" /\ life.command[p] # None
  BY ReadDoes DEF Quiet, Placed
<1>2. /\ config' = config /\ newest' = newest /\ key' = key /\ life' = life
      /\ keyring' = keyring /\ secret' = secret
  BY <1>1, ReadDoes DEF files
<1>3. GoodFor(config.data, newest) /\ mem'[p] = config.data /\ key # Torn
  BY <1>1, ReadDoes DEF Quiet, Settled, TornHere
<1>4. GoodFor(config.data, newest)'
  BY <1>2, <1>3 DEF GoodFor, InStore, Works
<1>5. CASE ToMigrate(mem'[p])
  <2>1. pc'[p] = "store" /\ cont'[p] = "migrate" /\ storing'[p] = config.data.pw
    BY <1>1, <1>3, <1>5, ReadDoes
  <2>2. config.data.pw # None /\ newest = config.data.pw
    BY <1>3, <1>5 DEF ToMigrate, GoodFor
  <2>. QED
    BY <1>2, <1>3, <2>1, <2>2
       DEF Holds, Relies, Leaves, TornHere, Settled, Running, Over, Target
<1>6. CASE ~ToMigrate(mem'[p])
  <2>1. pc'[p] \in {"done", "send", "prompt", "keyringGone", "delete"}
    BY <1>1, <1>6, ReadDoes, AfterLoadPlace
  <2>2. Loaded(p)'
    BY <1>2, <1>3, <1>4 DEF Loaded
  <2>3. pc'[p] # "done" => Settled(p)'
    BY <2>1, <2>2 DEF Settled
  <2>. QED
    BY <1>2, <1>3, <1>4, <2>1, <2>3 DEF Holds, Relies, Leaves, TornHere, Running, Over
<1>. QED
  BY <1>5, <1>6

LEMMA StoresQuietly ==
  ASSUME NEW p \in Procs, Quiet(p), Store(p)
  PROVE  Holds(p)'
<1>. USE DEF None, FilePlaces, KeyPlaces, SavePlaces, ShredPlaces
<1>1. TypeOK /\ Placed(p) /\ pc[p] = "store" /\ cont[p] \in {"migrate", "init"}
  BY StoreDoes DEF Quiet, Placed
<1>2. /\ newest' = newest /\ key' = key /\ life' = life /\ cont'[p] = cont[p]
      /\ storing'[p] = storing[p]
  BY <1>1, StoreDoes DEF local
<1>3. storing[p] # None /\ Target(p) = storing[p] /\ key # Torn /\ mem[p].user
  BY <1>1 DEF Quiet, Settled, TornHere, Named
<1>4. \/ Works /\ keyring' = storing[p] /\ pc'[p] = "shredSecret"
      \/ ~Works /\ pc'[p] = "key"
  BY <1>1, <1>3, StoreDoes DEF Quiet, OneByOne, Works
<1>5. Target(p)' = storing[p] /\ (Works' <=> Works) /\ ~Shredding(p)'
  BY <1>1, <1>2, <1>3 DEF Target, Works, Shredding, Placed
<1>. QED
  BY <1>1, <1>2, <1>3, <1>4, <1>5 DEF Holds, Relies, Leaves, TornHere, Settled, Running, Over

\* What a run that decrypts may rely on.
Decrypting(p) == newest # None /\ Loaded(p) /\ InStore(newest) /\ ~Works /\ token[p] = secret

LEMMA DecryptingStays ==
  ASSUME NEW p \in Procs, Decrypting(p),
         UNCHANGED <<newest, config, key, life, keyring, secret>>, UNCHANGED <<mem[p], token[p]>>
  PROVE  Decrypting(p)'
BY DEF Decrypting, Loaded, GoodFor, InStore, Works

LEMMA KeysQuietly ==
  ASSUME NEW p \in Procs, Quiet(p), Key(p)
  PROVE  Holds(p)'
<1>. USE DEF None, FilePlaces, KeyPlaces, SavePlaces, ShredPlaces
<1>1. TypeOK /\ Placed(p) /\ pc[p] = "key" /\ cont[p] \in {"migrate", "init", "decrypt"}
  BY KeyDoes DEF Quiet, Placed
<1>2. /\ UNCHANGED <<newest, config, key, life, keyring, secret>> /\ cont'[p] = cont[p]
      /\ storing'[p] = storing[p] /\ UNCHANGED <<mem[p], token[p]>>
  BY <1>1, KeyDoes DEF files
<1>3. key # Torn /\ Settled(p)
  BY <1>1 DEF Quiet, TornHere
<1>4. CASE cont[p] = "decrypt"
  <2>1. Decrypting(p)
    BY <1>1, <1>3, <1>4 DEF Settled, Decrypting
  <2>2. key # NoKey
    BY <2>1 DEF Decrypting, InStore
  <2>3. pc'[p] = "decrypt" /\ myKey'[p] = key
    BY <1>1, <1>3, <1>4, <2>2, KeyDoes
  <2>4. Decrypting(p)'
    BY <1>2, <2>1, DecryptingStays
  <2>. QED
    BY <1>2, <1>3, <1>4, <2>3, <2>4
       DEF Holds, Relies, Leaves, TornHere, Settled, Running, Over, Decrypting
<1>5. CASE cont[p] # "decrypt"
  <2>1. storing[p] # None /\ Target(p) = storing[p]
    BY <1>1, <1>3, <1>5 DEF Settled
  <2>2. Target(p)' = storing[p]
    BY <1>2, <2>1 DEF Target
  <2>3. \/ key = NoKey /\ pc'[p] = "keyTruncate"
        \/ key # NoKey /\ pc'[p] = "secretTruncate" /\ myKey'[p] = key
    BY <1>1, <1>3, <1>5, KeyDoes
  <2>. QED
    BY <1>2, <1>3, <1>5, <2>1, <2>2, <2>3
       DEF Holds, Relies, Leaves, TornHere, Settled, Running, Over
<1>. QED
  BY <1>4, <1>5

LEMMA NewKeyQuietly ==
  ASSUME NEW p \in Procs, Quiet(p), KeyTruncate(p) \/ KeyWrite(p)
  PROVE  Holds(p)'
<1>. USE DEF None, FilePlaces, KeyPlaces, SavePlaces, ShredPlaces
<1>1. TypeOK /\ Placed(p) /\ Settled(p) /\ pc[p] \in {"keyTruncate", "keyWrite"}
      /\ cont[p] \in {"migrate", "init"}
  <2>1. TypeOK /\ pc[p] \in {"keyTruncate", "keyWrite"}
    BY KeyTruncateDoes, KeyWriteDoes DEF Quiet
  <2>. QED
    BY <2>1 DEF Quiet, Placed, Settled
<1>2. /\ UNCHANGED <<newest, life>> /\ cont'[p] = cont[p] /\ storing'[p] = storing[p]
      /\ \/ pc'[p] = "keyWrite" /\ key' = Torn /\ myKey'[p] \notin {NoKey, Torn}
         \/ /\ pc[p] = "keyWrite" /\ pc'[p] = "secretTruncate" /\ key' = myKey[p]
            /\ myKey'[p] = myKey[p]
  BY <1>1, KeyTruncateDoes, KeyWriteDoes DEF local
<1>3. storing[p] # None /\ Target(p) = storing[p]
  BY <1>1 DEF Settled
<1>4. pc[p] = "keyWrite" => myKey[p] \notin {NoKey, Torn}
  BY <1>1 DEF Settled
<1>5. Target(p)' = storing[p]
  BY <1>2, <1>3 DEF Target
<1>. QED
  BY <1>1, <1>2, <1>3, <1>4, <1>5 DEF Holds, Relies, Leaves, TornHere, Settled, Running, Over

LEMMA FilesQuietly ==
  ASSUME NEW p \in Procs, Quiet(p), SecretTruncate(p) \/ SecretWrite(p)
  PROVE  Holds(p)'
<1>. USE DEF None, FilePlaces, KeyPlaces, SavePlaces, ShredPlaces
<1>1. TypeOK /\ Placed(p) /\ Settled(p) /\ pc[p] \in {"secretTruncate", "secretWrite"}
      /\ cont[p] \in {"migrate", "init"} /\ key # Torn /\ ~Works
  <2>1. TypeOK /\ pc[p] \in {"secretTruncate", "secretWrite"}
    BY SecretTruncateDoes, SecretWriteDoes DEF Quiet
  <2>. QED
    BY <2>1 DEF Quiet, Placed, Settled, TornHere, OneStore
<1>2. storing[p] # None /\ Target(p) = storing[p] /\ myKey[p] = key /\ key # NoKey
  BY <1>1 DEF Settled
<1>3. CASE SecretTruncate(p)
  <2>1. /\ UNCHANGED <<newest, life, key>> /\ cont'[p] = cont[p] /\ storing'[p] = storing[p]
        /\ pc'[p] = "secretWrite" /\ myKey'[p] = myKey[p]
    BY <1>1, <1>3, SecretTruncateDoes DEF local
  <2>2. Target(p)' = storing[p]
    BY <1>2, <2>1 DEF Target
  <2>. QED
    BY <1>1, <1>2, <2>1, <2>2 DEF Holds, Relies, Leaves, TornHere, Settled, Running, Over
<1>4. CASE SecretWrite(p)
  <2>1. /\ UNCHANGED <<newest, life, key>> /\ cont'[p] = cont[p] /\ storing'[p] = storing[p]
        /\ pc'[p] = "truncate" /\ secret' = [state |-> "ok", pw |-> storing[p], key |-> key]
        /\ mem'[p].user = mem[p].user /\ mem'[p].pw = None /\ mem'[p].backend = "file"
    BY <1>1, <1>2, <1>4, SecretWriteDoes
  <2>2. Target(p)' = storing[p]
    BY <1>2, <2>1 DEF Target
  <2>3. mem[p].user
    BY <1>1 DEF Quiet, Named
  <2>4. GoodFor(mem[p], Target(p))'
    BY <1>1, <1>2, <2>1, <2>2, <2>3 DEF GoodFor, InStore, Works
  <2>. QED
    BY <1>1, <2>1, <2>4 DEF Holds, Relies, Leaves, TornHere, Settled, Running, Over
<1>. QED
  BY <1>3, <1>4

LEMMA ShredsQuietly ==
  ASSUME NEW p \in Procs, Quiet(p), ShredSecret(p) \/ UnlinkSecret(p) \/ ShredKey(p)
  PROVE  Holds(p)'
<1>. USE DEF None, FilePlaces, KeyPlaces, SavePlaces, ShredPlaces
<1>1. TypeOK /\ Placed(p) /\ Settled(p) /\ pc[p] \in {"shredSecret", "unlinkSecret", "shredKey"}
      /\ key # Torn
  <2>1. TypeOK /\ pc[p] \in {"shredSecret", "unlinkSecret", "shredKey"}
    BY ShredSecretDoes, ShredKeyDoes DEF Quiet
  <2>. QED
    BY <2>1 DEF Quiet, TornHere
<1>2. /\ UNCHANGED <<newest, life, keyring>> /\ cont'[p] = cont[p] /\ storing'[p] = storing[p]
      /\ \/ pc'[p] \in {"unlinkSecret", "shredKey"} /\ key' = key
         \/ pc'[p] = "unlinkKey"
  BY <1>1, ShredSecretDoes, ShredKeyDoes DEF local
<1>3. CASE Shredding(p)
  <2>1. newest = None /\ cont[p] \notin {"init", "migrate"} /\ Shredding(p)'
    BY <1>1, <1>2, <1>3 DEF Settled, Shredding, Placed
  <2>. QED
    BY <1>1, <1>2, <2>1 DEF Holds, Relies, Leaves, TornHere, Settled, Running, Over
<1>4. CASE ~Shredding(p)
  <2>1. Works /\ keyring = storing[p] /\ cont[p] \in {"migrate", "init"}
    BY <1>1, <1>4 DEF Settled, Placed
  <2>2. storing[p] # None /\ Target(p) = storing[p]
    BY <1>1, <2>1 DEF Settled
  <2>3. Target(p)' = storing[p] /\ Works' /\ ~Shredding(p)'
    BY <1>2, <1>4, <2>1, <2>2 DEF Target, Works, Shredding
  <2>. QED
    BY <1>1, <1>2, <2>1, <2>2, <2>3 DEF Holds, Relies, Leaves, TornHere, Settled, Running, Over
<1>. QED
  BY <1>3, <1>4

LEMMA UnlinksQuietly ==
  ASSUME NEW p \in Procs, Quiet(p), UnlinkKey(p)
  PROVE  Holds(p)'
<1>. USE DEF None, FilePlaces, KeyPlaces, SavePlaces, ShredPlaces
<1>1. TypeOK /\ Placed(p) /\ Settled(p) /\ pc[p] = "unlinkKey"
  BY UnlinkKeyDoes DEF Quiet
<1>2. /\ UNCHANGED <<newest, life, keyring>> /\ cont'[p] = cont[p] /\ storing'[p] = storing[p]
      /\ key' = NoKey /\ key' # Torn
  BY <1>1, UnlinkKeyDoes DEF NoKey, Torn
<1>3. CASE Shredding(p)
  <2>1. newest = None /\ pc'[p] = "remove"
    BY <1>1, <1>3, UnlinkKeyDoes DEF Settled
  <2>. QED
    BY <1>2, <2>1 DEF Holds, Relies, Leaves, TornHere, Settled, Running, Over
<1>4. CASE ~Shredding(p)
  <2>1. Works /\ keyring = storing[p] /\ cont[p] \in {"migrate", "init"}
    BY <1>1, <1>4 DEF Settled, Placed
  <2>2. storing[p] # None /\ Target(p) = storing[p]
    BY <1>1, <2>1 DEF Settled
  <2>3. /\ pc'[p] = "truncate"
        /\ mem'[p].user = mem[p].user /\ mem'[p].pw = None /\ mem'[p].backend = "keyring"
    BY <1>1, <1>4, UnlinkKeyDoes
  <2>4. Target(p)' = storing[p] /\ Works'
    BY <1>2, <2>1, <2>2 DEF Target, Works
  <2>5. mem'[p].user
    BY <1>1, <2>1, <2>3 DEF Quiet, Named
  <2>6. GoodFor(mem[p], Target(p))'
    BY <1>2, <2>1, <2>2, <2>3, <2>4, <2>5 DEF GoodFor, InStore
  <2>. QED
    BY <1>2, <2>3, <2>6 DEF Holds, Relies, Leaves, TornHere, Settled, Running, Over
<1>. QED
  BY <1>3, <1>4

LEMMA SavesQuietly ==
  ASSUME NEW p \in Procs, Quiet(p), Truncate(p) \/ Write(p)
  PROVE  Holds(p)'
<1>. USE DEF None, FilePlaces, KeyPlaces, SavePlaces, ShredPlaces
<1>1. TypeOK /\ Placed(p) /\ Settled(p) /\ pc[p] \in {"truncate", "write"} /\ key # Torn
  <2>1. TypeOK /\ pc[p] \in {"truncate", "write"}
    BY TruncateDoes, WriteDoes DEF Quiet
  <2>. QED
    BY <2>1 DEF Quiet, TornHere
<1>2. GoodFor(mem[p], Target(p)) /\ life.command[p] # None
  BY <1>1 DEF Settled, Placed
<1>3. CASE Truncate(p)
  <2>1. /\ UNCHANGED <<newest, life, keyring, secret, key, mem>> /\ cont'[p] = cont[p]
        /\ storing'[p] = storing[p] /\ pc'[p] = "write"
    BY <1>1, <1>3, TruncateDoes DEF local
  <2>2. GoodFor(mem[p], Target(p))'
    BY <1>2, <2>1 DEF GoodFor, InStore, Works, Target
  <2>. QED
    BY <1>1, <2>1, <2>2 DEF Holds, Relies, Leaves, TornHere, Settled, Running, Over
<1>4. CASE Write(p)
  <2>1. /\ UNCHANGED <<life, keyring, secret, key, mem>>
        /\ config'.data = mem[p] /\ newest' = Target(p)
        /\ pc'[p] \in {"done", "send", "prompt", "keyringGone", "delete"}
    BY <1>1, <1>2, <1>4, WriteDoes, AfterLoadPlace DEF Target
  <2>2. GoodFor(config.data, newest)'
    BY <1>2, <2>1 DEF GoodFor, InStore, Works
  <2>3. Loaded(p)'
    BY <2>1, <2>2 DEF Loaded
  <2>4. pc'[p] # "done" => Settled(p)'
    BY <2>1, <2>3 DEF Settled
  <2>. QED
    BY <1>1, <2>1, <2>2, <2>4 DEF Holds, Relies, Leaves, TornHere, Running, Over
<1>. QED
  BY <1>3, <1>4

LEMMA PromptsQuietly ==
  ASSUME NEW p \in Procs, Quiet(p), Prompt(p)
  PROVE  Holds(p)'
<1>. USE DEF None, FilePlaces, KeyPlaces, SavePlaces, ShredPlaces
<1>1. TypeOK /\ pc[p] = "prompt" /\ key # Torn /\ GoodFor(mem[p], newest)
  <2>1. TypeOK /\ pc[p] = "prompt"
    BY PromptDoes DEF Quiet
  <2>. QED
    BY <2>1 DEF Quiet, TornHere, Settled, Loaded
<1>2. /\ UNCHANGED <<newest, config, life, keyring, secret, key>> /\ cont'[p] = "init"
      /\ mem'[p].user = TRUE /\ mem'[p].pw = mem[p].pw /\ mem'[p].backend = mem[p].backend
      /\ \/ pc'[p] = "store" /\ storing'[p] = "new"
         \/ pc'[p] = "truncate" /\ storing'[p] = None
  BY <1>1, PromptDoes DEF files
<1>3. CASE pc'[p] = "store" /\ storing'[p] = "new"
  BY <1>1, <1>2, <1>3 DEF Holds, Relies, Leaves, TornHere, Settled, Running, Over, Target
<1>4. CASE pc'[p] = "truncate" /\ storing'[p] = None
  <2>1. GoodFor(mem[p], Target(p))'
    BY <1>1, <1>2, <1>4 DEF GoodFor, InStore, Works, Target
  <2>. QED
    BY <1>1, <1>2, <1>4, <2>1 DEF Holds, Relies, Leaves, TornHere, Settled, Running, Over
<1>. QED
  BY <1>2, <1>3, <1>4

\* A run finds its password, or decrypts it, or knows that there is none.
LEMMA Finds ==
  ASSUME NEW p \in Procs, Quiet(p), Send(p)
  PROVE  \/ pc'[p] = "done" /\ used'[p] = IF newest = None THEN "unconfigured" ELSE newest
         \/ /\ pc'[p] = "readSecret" /\ newest # None /\ Loaded(p) /\ InStore(newest) /\ ~Works
<1>. USE DEF None
<1>1. TypeOK /\ pc[p] = "send"
  BY SendDoes DEF Quiet
<1>2. Loaded(p) /\ GoodFor(mem[p], newest)
  BY <1>1 DEF Quiet, Settled, Loaded
<1>3. CASE newest = None
  BY <1>1, <1>2, <1>3, SendDoes DEF GoodFor
<1>4. CASE newest # None /\ mem[p].pw # None
  BY <1>1, <1>2, <1>4, SendDoes DEF GoodFor, Found
<1>5. CASE newest # None /\ mem[p].pw = None
  <2>1. mem[p].user /\ mem[p].backend # "" /\ InStore(newest)
    BY <1>2, <1>5 DEF GoodFor
  <2>2. CASE Works
    <3>1. p \in life.keyring /\ keyring = newest
      BY <2>1, <2>2 DEF InStore, Works, Quiet, OneByOne
    <3>2. Found(p) = newest
      BY <1>5, <3>1 DEF Found
    <3>. QED
      BY <1>1, <1>5, <2>1, <3>2, SendDoes
  <2>3. CASE ~Works
    <3>1. Found(p) = None
      BY <1>5, <2>3 DEF Found, Works
    <3>. QED
      BY <1>1, <1>2, <1>5, <2>1, <2>3, <3>1, SendDoes
  <2>. QED
    BY <2>2, <2>3
<1>. QED
  BY <1>3, <1>4, <1>5

LEMMA SendsQuietly ==
  ASSUME NEW p \in Procs, Quiet(p), Send(p) \/ ReadSecret(p) \/ Decrypt(p)
  PROVE  Holds(p)'
<1>. USE DEF None, FilePlaces, KeyPlaces, SavePlaces, ShredPlaces
<1>1. TypeOK /\ Placed(p) /\ Settled(p) /\ pc[p] \in {"send", "readSecret", "decrypt"}
      /\ key # Torn
  <2>1. TypeOK /\ pc[p] \in {"send", "readSecret", "decrypt"}
    BY SendDoes, ReadSecretDoes, DecryptDoes DEF Quiet
  <2>. QED
    BY <2>1 DEF Quiet, TornHere
<1>2. Loaded(p)
  BY <1>1 DEF Settled, Placed
<1>3. UNCHANGED <<newest, config, life, keyring, secret, key, mem>>
  BY <1>1, SendDoes, ReadSecretDoes, DecryptDoes DEF files
<1>4. Loaded(p)' /\ GoodFor(config.data, newest)'
  BY <1>2, <1>3 DEF Loaded, GoodFor, InStore, Works
<1>5. CASE pc'[p] = "done"
  BY <1>1, <1>3, <1>4, <1>5 DEF Holds, Relies, Leaves, TornHere, Running, Over
<1>6. CASE pc'[p] = "readSecret"
  <2>1. newest # None /\ InStore(newest) /\ ~Works
    BY <1>1, <1>6, Finds, ReadSecretDoes, DecryptDoes
  <2>2. newest' # None /\ InStore(newest)' /\ ~Works'
    BY <1>3, <2>1 DEF InStore, Works
  <2>. QED
    BY <1>1, <1>3, <1>4, <1>6, <2>2
       DEF Holds, Relies, Leaves, TornHere, Running, Over, Settled
<1>7. CASE pc'[p] \notin {"done", "readSecret"}
  <2>1. ReadSecret(p)
    BY <1>1, <1>7, SendDoes, DecryptDoes
  <2>2. pc'[p] = "key" /\ cont'[p] = "decrypt" /\ token'[p] = secret /\ pc[p] = "readSecret"
    BY <1>1, <1>7, <2>1, ReadSecretDoes
  <2>3. newest # None /\ InStore(newest) /\ ~Works
    BY <1>1, <2>2 DEF Settled
  <2>4. newest' # None /\ InStore(newest)' /\ ~Works'
    BY <1>3, <2>3 DEF InStore, Works
  <2>. QED
    BY <1>1, <1>3, <1>4, <2>2, <2>4
       DEF Holds, Relies, Leaves, TornHere, Running, Over, Settled
<1>. QED
  BY <1>5, <1>6, <1>7

LEMMA ForgetsQuietly ==
  ASSUME NEW p \in Procs, Quiet(p), KeyringGone(p) \/ Remove(p) \/ Delete(p)
  PROVE  Holds(p)'
<1>. USE DEF None, FilePlaces, KeyPlaces, SavePlaces, ShredPlaces, Said
<1>1. TypeOK /\ Placed(p) /\ Settled(p) /\ pc[p] \in {"keyringGone", "remove", "delete"}
      /\ key # Torn
  <2>1. TypeOK /\ pc[p] \in {"keyringGone", "remove", "delete"}
    BY KeyringGoneDoes, RemoveDoes, DeleteDoes DEF Quiet
  <2>. QED
    BY <2>1 DEF Quiet, TornHere
<1>2. CASE KeyringGone(p)
  <2>1. /\ newest' = None /\ life' = life /\ key' = key /\ cont'[p] = cont[p]
        /\ pc'[p] = "shredSecret" /\ pc[p] = "keyringGone"
    BY <1>1, <1>2, KeyringGoneDoes DEF local
  <2>2. Shredding(p)' /\ cont'[p] \notin {"migrate", "init"}
    BY <1>1, <2>1 DEF Placed, Shredding
  <2>. QED
    BY <1>1, <2>1, <2>2 DEF Holds, Relies, Leaves, TornHere, Settled, Running, Over
<1>3. CASE Remove(p) \/ Delete(p)
  <2>1. newest' = None /\ config' = Removed /\ pc'[p] = "done" /\ key' # Torn
    <3>1. CASE Remove(p)
      BY <1>1, <3>1, RemoveDoes DEF Settled, NoKey, Torn
    <3>2. CASE Delete(p)
      BY <1>1, <3>2, DeleteDoes
    <3>. QED
      BY <1>3, <3>1, <3>2
  <2>2. GoodFor(config.data, newest)'
    BY <2>1, EmptyValues DEF GoodFor
  <2>. QED
    BY <2>1, <2>2 DEF Holds, Relies, Leaves, TornHere, Running, Over
<1>. QED
  BY <1>2, <1>3

LEMMA QuietStep ==
  ASSUME NEW p \in Procs, Quiet(p), Acts(p), ~Crash(p), ~Refused(p)
  PROVE  Holds(p)'
<1>1. ~Failed(p)
  BY FailedDoes DEF Quiet, Settled
<1>. QED
  BY <1>1, BeginsQuietly, ReadsQuietly, StoresQuietly, KeysQuietly, NewKeyQuietly, FilesQuietly,
     ShredsQuietly, UnlinksQuietly, SavesQuietly, PromptsQuietly, SendsQuietly, ForgetsQuietly
     DEF Acts, StoreSteps

LEMMA DataStays ==
  ASSUME NEW p \in Procs, Acts(p), config.state # "ok" => config.data = Defaults
  PROVE  config'.state # "ok" => config'.data = Defaults
<1>1. CASE Write(p)
  BY <1>1 DEF Write
<1>2. CASE Truncate(p)
  BY <1>2 DEF Truncate
<1>3. CASE Remove(p) \/ Delete(p)
  BY <1>3, EmptyValues DEF Remove, Delete
<1>. QED
  BY <1>1, <1>2, <1>3, ConfigChanges

\* Kills and refusals are counted, and nothing else is.
LEMMA FaultsCount ==
  ASSUME TypeOK, NEW p \in Procs, Acts(p), faults' = 0
  PROVE  faults = 0 /\ ~Crash(p) /\ ~Refused(p)
<1>1. faults \in Nat
  BY DEF TypeOK
<1>2. CASE Crash(p) \/ Refused(p)
  BY <1>1, <1>2, CrashDoes, RefusedDoes
<1>3. CASE ~Crash(p) /\ ~Refused(p)
  BY <1>3 DEF Acts, StoreSteps, Start, Exists, Read, Store, Key, KeyTruncate, KeyWrite,
     SecretTruncate, SecretWrite, ShredSecret, UnlinkSecret, ShredKey, UnlinkKey, Failed, Truncate,
     Write, Prompt, Send, ReadSecret, Decrypt, KeyringGone, Remove, Delete
<1>. QED
  BY <1>2, <1>3

\* Nobody was killed and nothing refused: the process that takes the step is ready for it.
LEMMA GetsQuiet ==
  ASSUME TypeOK, Managed, OneByOne, faults = 0, NEW p \in Procs, Placed(p), Acts(p)
  PROVE  Quiet(p)
<1>1. /\ Alone /\ Named /\ OneStore /\ NoTornKey /\ (config.state # "ok" => config.data = Defaults)
      /\ (Running(p) => Settled(p)) /\ (Idle => GoodFor(config.data, newest))
  BY DEF Managed
<1>2. CASE Start(p)
  <2>1. Idle /\ pc[p] = "new"
    BY <1>2, StartDoes DEF OneByOne
  <2>2. key # Torn
    BY <1>1, <2>1 DEF NoTornKey, Idle, Running, Over
  <2>. QED
    BY <1>1, <2>1, <2>2 DEF Quiet, TornHere
<1>3. CASE ~Start(p)
  <2>1. Running(p)
    BY <1>3, ActsRuns
  <2>2. TornHere(p)
    BY <1>1, <2>1, TornWhere DEF TornHere
  <2>3. pc[p] # "new"
    BY <2>1 DEF Running
  <2>. QED
    BY <1>1, <2>1, <2>2, <2>3 DEF Quiet
<1>. QED
  BY <1>2, <1>3

LEMMA ManagedStep ==
  ASSUME TypeOK, Managed, NEW p \in Procs, Placed(p), Acts(p)
  PROVE  Managed'
<1>1. OneByOne' <=> OneByOne
  BY LifeStays DEF OneByOne
<1>. SUFFICES ASSUME OneByOne
              PROVE  /\ Alone' /\ Named' /\ OneStore' /\ \A q \in Procs : Purging(q)'
                     /\ faults' = 0 =>
                          /\ NoTornKey' /\ (config'.state # "ok" => config'.data = Defaults)
                          /\ \A q \in Procs : Running(q)' => Settled(q)'
                          /\ Idle' => GoodFor(config.data, newest)'
  BY <1>1 DEF Managed
<1>2. Alone /\ Named /\ OneStore /\ \A q \in Procs : Purging(q)
  BY DEF Managed
<1>3. Alone' /\ Named' /\ OneStore'
  BY <1>2, AloneStep, NamedStep, OneStoreStep
<1>4. ASSUME NEW q \in Procs PROVE Purging(q)'
  BY <1>2, PurgingStep
<1>5. ASSUME faults' = 0
      PROVE  /\ NoTornKey' /\ (config'.state # "ok" => config'.data = Defaults)
             /\ \A q \in Procs : Running(q)' => Settled(q)'
             /\ Idle' => GoodFor(config.data, newest)'
  <2>1. faults = 0 /\ ~Crash(p) /\ ~Refused(p)
    BY <1>5, FaultsCount
  <2>2. Quiet(p)
    BY <2>1, GetsQuiet
  <2>3. Holds(p)'
    BY <2>1, <2>2, QuietStep
  <2>4. \A q \in Procs \ {p} : ~Running(q)'
    BY <1>2, OthersRest
  <2>5. NoTornKey'
    BY <2>3 DEF Holds, TornHere, NoTornKey
  <2>6. config'.state # "ok" => config'.data = Defaults
    BY <2>2, DataStays DEF Quiet
  <2>7. \A q \in Procs : Running(q)' => Settled(q)'
    BY <2>3, <2>4 DEF Holds, Relies
  <2>8. Idle' => GoodFor(config.data, newest)'
    BY <2>3 DEF Holds, Leaves, Idle
  <2>. QED
    BY <2>5, <2>6, <2>7, <2>8
<1>. QED
  BY <1>3, <1>4, <1>5

LEMMA ManagedInit == Init => Managed
<1>. SUFFICES ASSUME Init PROVE Managed
  OBVIOUS
<1>. USE DEF None
<1>1. ASSUME NEW p \in Procs
      PROVE  pc[p] = "new" /\ ~Running(p) /\ mem[p].pw = None /\ mem[p].user = FALSE
  BY EmptyValues DEF Init, Running
<1>2. Alone /\ Idle
  BY <1>1 DEF Alone, Idle
<1>3. config.data.pw # None => config.data.user
  BY EmptyValues DEF Init
<1>4. Named
  BY <1>1, <1>3 DEF Named, FilePlaces, KeyPlaces, ShredPlaces
<1>5. OneStore
  BY <1>1 DEF OneStore, FilePlaces, KeyPlaces, Init
<1>6. \A p \in Procs : Purging(p)
  BY <1>1 DEF Purging, ShredPlaces
<1>7. NoTornKey
  <2>1. key = NoKey
    BY DEF Init
  <2>. QED
    BY <2>1 DEF NoTornKey, NoKey, Torn
<1>8. config.state # "ok" => config.data = Defaults
  BY DEF Init
<1>9. GoodFor(config.data, newest)
  <2>1. CASE life.legacy
    BY <2>1 DEF Init, GoodFor
  <2>2. CASE ~life.legacy
    BY <2>2, EmptyValues DEF Init, GoodFor
  <2>. QED
    BY <2>1, <2>2
<1>. QED
  BY <1>1, <1>2, <1>4, <1>5, <1>6, <1>7, <1>8, <1>9 DEF Managed

-----------------------------------------------------------------------------
(* The theorems.                                                           *)

LEMMA PlacedInit ==
  ASSUME Init, NEW p \in Procs
  PROVE  Placed(p)
<1>1. pc[p] = "new" /\ cont[p] = None /\ mem[p] = Defaults
  BY DEF Init
<1>. QED
  BY <1>1 DEF Placed, KeyPlaces, ShredPlaces, SavePlaces, None

\* Between any two steps of any number of commands: the types, the places, what an upgrade
\* relies on, and what commands one after another rely on.
THEOREM InductiveHolds == Spec => []Inductive
<1>1. Init => Inductive
  BY TypeInit, PlacedInit, UpgradeInit, ManagedInit DEF Inductive
<1>2. Inductive /\ [Next]_vars => Inductive'
  <2>. SUFFICES ASSUME Inductive, [Next]_vars PROVE Inductive'
    OBVIOUS
  <2>1. CASE UNCHANGED vars
    <3>1. TypeOK'
      BY <2>1 DEF vars, Inductive, TypeOK, Secrets
    <3>2. ASSUME NEW p \in Procs PROVE Placed(p)'
      BY <2>1 DEF vars, Inductive, Placed, Shredding
    <3>3. Upgrade'
      BY <2>1 DEF vars, Inductive, Upgrade, Upgrading, OnePassword, Upgraded, Scrub, OneWithout,
         Handed, Before, After, InFile
    <3>4. Managed'
      <4>1. (OneByOne' <=> OneByOne) /\ (Alone' <=> Alone) /\ (Named' <=> Named)
            /\ (OneStore' <=> OneStore) /\ (NoTornKey' <=> NoTornKey) /\ (Idle' <=> Idle)
        BY <2>1 DEF vars, OneByOne, Alone, Running, Idle, Named, OneStore, Works, NoTornKey
      <4>2. ASSUME NEW p \in Procs
            PROVE  /\ Purging(p)' <=> Purging(p)
                   /\ Running(p)' <=> Running(p)
        BY <2>1 DEF vars, Purging, Running, Shredding
      <4>3. ASSUME NEW p \in Procs PROVE Settled(p)' <=> Settled(p)
        BY <2>1 DEF vars, Settled, Shredding, Loaded, GoodFor, InStore, Works, Target
      <4>4. GoodFor(config.data, newest)' <=> GoodFor(config.data, newest)
        BY <2>1 DEF vars, GoodFor, InStore, Works
      <4>5. faults' = faults /\ config' = config
        BY <2>1 DEF vars
      <4>. QED
        BY <4>1, <4>2, <4>3, <4>4, <4>5 DEF Inductive, Managed
    <3>. QED
      BY <3>1, <3>2, <3>3, <3>4 DEF Inductive
  <2>2. ASSUME NEW p \in Procs, Acts(p) PROVE Inductive'
    <3>1. TypeOK /\ Placed(p)
      BY DEF Inductive
    <3>2. TypeOK'
      BY <2>2, <3>1, TypeStep
    <3>3. \A q \in Procs : Placed(q)'
      BY <2>2, <3>1, PlacedStep DEF Inductive
    <3>4. Upgrade'
      BY <2>2, <3>1, <3>3, UpgradeStep DEF Inductive
    <3>5. Managed'
      BY <2>2, <3>1, ManagedStep DEF Inductive
    <3>. QED
      BY <3>2, <3>3, <3>4, <3>5 DEF Inductive
  <2>. QED
    BY <2>1, <2>2, StepOfOne
<1>. QED
  BY <1>1, <1>2, PTL DEF Spec

\* Upgrading, whatever is killed or refused at whatever instant: the password of version 0.1.3 can
\* be had from one of the three places, if the keyring fails for one process at most.
THEOREM LegacyIsKept == Spec => []((\E f \in Procs : OneWithout(f)) => LegacyKept)
<1>1. Inductive => ((\E f \in Procs : OneWithout(f)) => LegacyKept)
  <2>. SUFFICES ASSUME Upgrade, Upgrading, NEW f \in Procs, OneWithout(f) PROVE Kept("old")
    BY DEF Inductive, LegacyKept
  <2>1. Handed(f)
    BY DEF Upgrade
  <2>. QED
    <3>1. CASE InFile
      <4>1. secret.state = "ok" /\ secret.pw = "old" /\ secret.key = key
        BY <3>1 DEF InFile
      <4>. QED
        BY <4>1 DEF Kept, Decryptable
    <3>. QED
      BY <2>1, <3>1 DEF Handed, Before, After, Kept
<1>. QED
  BY <1>1, InductiveHolds, PTL

\* Upgrading, whatever is killed or refused: once a process has said that it removed the
\* password from config.toml, and its save went through, the password is not there, and
\* nobody brings it back, with the keyring or without.
THEOREM StaysScrubbed == Spec => []Scrubbed
<1>1. Inductive => Scrubbed
  BY DEF Inductive, Upgrade, Scrub, Scrubbed
<1>. QED
  BY <1>1, InductiveHolds, PTL

\* One command after another, none killed and no write refused: every process would send with the
\* password stored last.
THEOREM NewestAlwaysWins == Spec => []NewestWins
<1>1. Inductive => NewestWins
  <2>. SUFFICES ASSUME Managed, OneByOne, Idle, faults = 0, newest # None
                PROVE  Effective(Works) = newest
    BY DEF Inductive, NewestWins, Works
  <2>1. GoodFor(config.data, newest)
    BY DEF Managed
  <2>2. ~Works => keyring = None
    BY DEF Managed, OneStore
  <2>. QED
    <3>1. CASE config.data.pw # None
      BY <2>1, <3>1 DEF GoodFor, Effective
    <3>2. CASE config.data.pw = None
      <4>1. InStore(newest)
        BY <2>1, <3>2 DEF GoodFor
      <4>2. CASE Works
        BY <3>2, <4>1, <4>2 DEF InStore, Effective
      <4>3. CASE ~Works
        <5>1. secret.state = "ok" /\ secret.pw = newest /\ secret.key = key
          BY <4>1, <4>3 DEF InStore
        <5>. QED
          BY <2>2, <3>2, <4>3, <5>1 DEF Effective, Decryptable
      <4>. QED
        BY <4>2, <4>3
    <3>. QED
      BY <3>1, <3>2
<1>. QED
  BY <1>1, InductiveHolds, PTL

\* Whoever is the first to be done with a run has found what there was to find.
LEMMA RunEnds ==
  ASSUME NEW p \in Procs, Quiet(p), Acts(p), ~Crash(p), ~Refused(p),
         life.command[p] = "run", pc[p] # "done", pc'[p] = "done"
  PROVE  used'[p] = IF newest = None THEN "unconfigured" ELSE newest
<1>. USE DEF None, FilePlaces, KeyPlaces, SavePlaces, ShredPlaces
<1>1. TypeOK /\ Placed(p) /\ AfterLoad(p) = "send" /\ cont[p] # "init"
  BY DEF Quiet, Placed, AfterLoad
<1>2. CASE Send(p)
  BY <1>2, Finds
<1>3. CASE Decrypt(p)
  <2>1. /\ token[p] = secret /\ myKey[p] = key /\ newest # None /\ InStore(newest) /\ ~Works
    <3>1. pc[p] = "decrypt" /\ cont[p] = "decrypt" /\ Settled(p)
      BY <1>1, <1>3, DecryptDoes DEF Quiet, Placed
    <3>. QED
      BY <3>1 DEF Settled
  <2>2. token[p].state = "ok" /\ token[p].key = myKey[p] /\ token[p].pw = newest
    BY <2>1 DEF InStore
  <2>. QED
    BY <1>1, <1>3, <2>1, <2>2, DecryptDoes
<1>4. CASE ReadSecret(p)
  <2>1. secret.state = "ok"
    <3>1. pc[p] = "readSecret" /\ Settled(p)
      BY <1>1, <1>4, ReadSecretDoes DEF Quiet
    <3>2. InStore(newest) /\ ~Works
      BY <3>1 DEF Settled
    <3>. QED
      BY <3>2 DEF InStore
  <2>. QED
    BY <1>1, <1>4, <2>1, ReadSecretDoes
<1>5. ~Failed(p)
  BY FailedDoes DEF Quiet, Settled
<1>6. ~Start(p) /\ ~Exists(p) /\ ~Read(p) /\ ~Write(p) /\ ~Truncate(p) /\ ~Prompt(p)
  BY <1>1, StartDoes, ExistsDoes, ReadDoes, WriteDoes, TruncateDoes, PromptDoes
<1>7. ~Store(p) /\ ~Key(p) /\ ~KeyTruncate(p) /\ ~KeyWrite(p) /\ ~SecretTruncate(p)
  BY <1>1, StoreDoes, KeyDoes, KeyTruncateDoes, KeyWriteDoes, SecretTruncateDoes
<1>8. ~SecretWrite(p) /\ ~ShredSecret(p) /\ ~UnlinkSecret(p) /\ ~ShredKey(p) /\ ~UnlinkKey(p)
  BY <1>1, SecretWriteDoes, ShredSecretDoes, ShredKeyDoes, UnlinkKeyDoes
<1>9. ~KeyringGone(p) /\ ~Remove(p) /\ ~Delete(p)
  BY <1>1, KeyringGoneDoes, RemoveDoes, DeleteDoes DEF Placed
<1>. QED
  BY <1>2, <1>3, <1>4, <1>5, <1>6, <1>7, <1>8, <1>9 DEF Acts, StoreSteps

\* Such a run sends with the password stored last, and takes itself for unconfigured only
\* if there is none.
THEOREM RunsSendRight == Spec => SendsRight
<1>1. Inductive /\ [Next]_vars =>
        [\A p \in Procs :
           OneByOne /\ faults = 0 /\ life.command[p] = "run" /\ pc[p] # "done" /\ pc'[p] = "done" =>
             used'[p] = IF newest = None THEN "unconfigured" ELSE newest]_vars
  <2>. SUFFICES ASSUME Inductive, [Next]_vars, ~UNCHANGED vars, NEW p \in Procs, OneByOne,
                       faults = 0, life.command[p] = "run", pc[p] # "done", pc'[p] = "done"
                PROVE  used'[p] = IF newest = None THEN "unconfigured" ELSE newest
    OBVIOUS
  <2>1. PICK q \in Procs : Acts(q)
    BY StepOfOne
  <2>2. TypeOK /\ Managed /\ Placed(p)
    BY DEF Inductive
  <2>3. q = p
    BY <2>1, <2>2, OthersStay
  <2>4. ~Crash(p) /\ ~Refused(p)
    BY <2>2, CrashDoes, RefusedDoes DEF Placed, AfterLoad
  <2>. QED
    BY <2>1, <2>2, <2>3, <2>4, GetsQuiet, RunEnds
<1>. QED
  BY <1>1, InductiveHolds, PTL DEF Spec, SendsRight

\* uninstall as the only command, done after whatever was killed before: nothing of the
\* password is left anywhere, if config.toml still named the user.
THEOREM PurgesClean == Spec => PurgedClean
<1>1. Inductive /\ [Next]_vars =>
        [\A p \in Procs : OneByOne /\ Remove(p) =>
           /\ secret'.state = "absent" /\ key' = NoKey /\ config'.state = "absent"
           /\ mem[p].user => keyring = None]_vars
  <2>. SUFFICES ASSUME Inductive, NEW p \in Procs, OneByOne, Remove(p)
                PROVE  /\ secret'.state = "absent" /\ key' = NoKey /\ config'.state = "absent"
                       /\ mem[p].user => keyring = None
    OBVIOUS
  <2>1. pc[p] = "remove" /\ config' = Removed /\ secret' = NoSecret /\ key' = NoKey
    BY RemoveDoes DEF Inductive
  <2>2. Purging(p)
    BY DEF Inductive, Managed
  <2>. QED
    BY <2>1, <2>2, EmptyValues DEF Purging
<1>. QED
  BY <1>1, InductiveHolds, PTL DEF Spec, PurgedClean
=============================================================================
