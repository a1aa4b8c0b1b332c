---------------------------- MODULE SecretStore -----------------------------
(***************************************************************************)
(* Where the SMTP password is: config.toml (config.py), the keyring and    *)
(* secret.enc with the key it was encrypted under (secrets.py, crypto.py); *)
(* and the commands that move it, of which several may run at once under   *)
(* one home directory; each may be killed at any step, and the disk may    *)
(* refuse any write.  The environment variable is not set; there is one    *)
(* user name.                                                              *)
(***************************************************************************)
EXTENDS Integers, FiniteSets

CONSTANTS
  Procs,          \* processes: each runs one command, once
  Lives           \* the lives of an installation, one of which is chosen: see LifeType

Commands == {"load", "run", "init", "purge", "reset"}
None == "none"
Passwords == {"old", "new"}

\* The command of each process, or none; the processes for which the keyring works;
\* whether the host has a machine id; whether config.toml holds a password of version
\* 0.1.3; whether a command waits for the others; and how often at most
\* one is killed or a write is refused.
LifeType == [command : [Procs -> Commands \cup {None}], keyring : SUBSET Procs, machineId : BOOLEAN,
             legacy : BOOLEAN, serial : BOOLEAN, faults : Nat]

ASSUME SecretAssumption == IsFiniteSet(Procs) /\ Lives \subseteq LifeType

VARIABLES
  life,
  config,         \* config.toml
  keyring,        \* the entry of the user
  secret, key,    \* secret.enc; salt.bin, or key.bin without a machine id
  made,           \* keys generated so far
  pc, cont,       \* of each process; where store_secret or get_fernet_key returns to
  mem,            \* its GPUAlertConfig
  storing,        \* the password being stored
  token,          \* what it read from secret.enc
  myKey,          \* the key get_fernet_key returned
  used,           \* what a run sent its mail with
  newest,         \* the password the user last made gpualert store
  faults          \* commands killed and writes refused

vars == <<life, config, keyring, secret, key, made, pc, cont, mem, storing, token, myKey, used,
          newest, faults>>
files == <<config, keyring, secret, key, made>>
local == <<cont, mem, storing, token, myKey, used>>

NoKey == -1
Torn == 0         \* a file that was truncated and not written: an empty salt is a salt
NoSecret == [state |-> "absent", pw |-> None, key |-> NoKey]
TornSecret == [state |-> "torn", pw |-> None, key |-> NoKey]
Defaults == [user |-> FALSE, pw |-> None, backend |-> ""]

Init ==
  /\ life \in Lives
  /\ config = [state |-> IF life.legacy THEN "ok" ELSE "absent",
               data |-> IF life.legacy THEN [user |-> TRUE, pw |-> "old", backend |-> ""] ELSE Defaults]
  /\ keyring = None /\ secret = NoSecret /\ key = NoKey /\ made = 0
  /\ pc = [p \in Procs |-> "new"] /\ cont = [p \in Procs |-> None]
  /\ mem = [p \in Procs |-> Defaults] /\ storing = [p \in Procs |-> None]
  /\ token = [p \in Procs |-> NoSecret] /\ myKey = [p \in Procs |-> NoKey]
  /\ used = [p \in Procs |-> None]
  /\ newest = (IF life.legacy THEN "old" ELSE None) /\ faults = 0

Over == {"done", "dead"}
Running(p) == pc[p] \notin {"new"} \cup Over
Idle == \A p \in Procs : ~Running(p)

Go(p, place) == pc' = [pc EXCEPT ![p] = place]
Step(p, from, to) == pc[p] = from /\ Go(p, to)

Start(p) ==
  /\ Step(p, "new", "exists") /\ (life.serial => Idle) /\ life.command[p] # None
  /\ UNCHANGED <<life, files, local, newest, faults>>

-----------------------------------------------------------------------------
(* load_config.                                                            *)

\* Where a command goes on once it has its config.
AfterLoad(p) ==
  CASE life.command[p] = "load" -> "done" [] life.command[p] = "run" -> "send"
    [] life.command[p] = "init" -> "prompt" [] life.command[p] = "purge" -> "keyringGone"
    [] life.command[p] = "reset" -> "delete"

\* A missing file is created with the defaults.
Exists(p) ==
  /\ pc[p] = "exists"
  /\ IF config.state = "absent"
     THEN Go(p, "truncate") /\ cont' = [cont EXCEPT ![p] = "loaded"]
     ELSE Go(p, "read") /\ UNCHANGED cont
  /\ UNCHANGED <<life, files, mem, storing, token, myKey, used, newest, faults>>

\* _migrate_plaintext_password, up to the store; an empty or vanished file gives
\* the defaults.
ToMigrate(data) == data.pw # None /\ data.backend = ""

Read(p) ==
  /\ pc[p] = "read"
  /\ LET data == IF config.state = "ok" THEN config.data ELSE Defaults
     IN /\ mem' = [mem EXCEPT ![p] = data]
        /\ IF ToMigrate(data)
           THEN /\ Go(p, "store") /\ cont' = [cont EXCEPT ![p] = "migrate"]
                /\ storing' = [storing EXCEPT ![p] = data.pw]
           ELSE Go(p, AfterLoad(p)) /\ UNCHANGED <<cont, storing>>
  /\ UNCHANGED <<life, files, token, myKey, used, newest, faults>>

-----------------------------------------------------------------------------
(* store_secret.                                                           *)

\* The rest of migrate or of the wizard, and save_config.
Stored_KeepsPlain(p, kind) == mem' = [mem EXCEPT ![p] = [@ EXCEPT !.backend = kind]]
Stored_Misnamed(p, kind) == mem' = [mem EXCEPT ![p] = [@ EXCEPT !.pw = None, !.backend = "enc"]]
Stored(p, kind) == mem' = [mem EXCEPT ![p] = [@ EXCEPT !.pw = None, !.backend = kind]]

\* What _keyring_set returns.
KeyringSet_Trusted(p) == TRUE
KeyringSet(p) == p \in life.keyring

Store(p) ==
  /\ pc[p] = "store"
  /\ keyring' = IF mem[p].user /\ p \in life.keyring THEN storing[p] ELSE keyring
  /\ Go(p, IF mem[p].user /\ KeyringSet(p) THEN "shredSecret" ELSE "key")
  /\ UNCHANGED <<life, config, secret, key, made, local, newest, faults>>

\* _get_salt, or the second half of get_fernet_key: the file is there, or is made.
\* An empty key.bin is no Fernet key: that raises.
Key(p) ==
  /\ pc[p] = "key"
  /\ \/ /\ key = NoKey
        /\ Go(p, "keyTruncate") /\ UNCHANGED myKey
     \/ /\ key # NoKey /\ (key # Torn \/ life.machineId)
        /\ myKey' = [myKey EXCEPT ![p] = key]
        /\ Go(p, IF cont[p] = "decrypt" THEN "decrypt" ELSE "secretTruncate")
     \/ /\ key = Torn /\ ~life.machineId
        /\ Go(p, "failed") /\ UNCHANGED myKey
  /\ UNCHANGED <<life, files, cont, mem, storing, token, used, newest, faults>>

KeyTruncate(p) ==
  /\ Step(p, "keyTruncate", "keyWrite")
  /\ key' = Torn /\ made' = made + 1 /\ myKey' = [myKey EXCEPT ![p] = made']
  /\ UNCHANGED <<life, config, keyring, secret, cont, mem, storing, token, used, newest, faults>>

KeyWrite(p) ==
  /\ Step(p, "keyWrite", IF cont[p] = "decrypt" THEN "decrypt" ELSE "secretTruncate")
  /\ key' = myKey[p]
  /\ UNCHANGED <<life, config, keyring, secret, made, local, newest, faults>>

SecretTruncate(p) ==
  /\ Step(p, "secretTruncate", "secretWrite") /\ secret' = TornSecret
  /\ UNCHANGED <<life, config, keyring, key, made, local, newest, faults>>

SecretWrite(p) ==
  /\ Step(p, "secretWrite", "truncate")
  /\ secret' = [state |-> "ok", pw |-> storing[p], key |-> myKey[p]]
  /\ Stored(p, "file")
  /\ UNCHANGED <<life, config, keyring, key, made, cont, storing, token, myKey, used, newest, faults>>

\* purge_file_secret: overwritten, then unlinked; what is missing is skipped.  A
\* salt of random bytes is a salt.
ShredSecret(p) ==
  /\ Step(p, "shredSecret", "unlinkSecret")
  /\ secret' = IF secret.state = "absent" THEN secret ELSE TornSecret
  /\ UNCHANGED <<life, config, keyring, key, made, local, newest, faults>>

UnlinkSecret(p) ==
  /\ Step(p, "unlinkSecret", "shredKey") /\ secret' = NoSecret
  /\ UNCHANGED <<life, config, keyring, key, made, local, newest, faults>>

ShredKey(p) ==
  /\ Step(p, "shredKey", "unlinkKey")
  /\ \/ key = NoKey /\ UNCHANGED <<key, made>>
     \/ key # NoKey /\ life.machineId /\ made' = made + 1 /\ key' = made'
     \/ key # NoKey /\ ~life.machineId /\ key' = Torn /\ UNCHANGED made
  /\ UNCHANGED <<life, config, keyring, secret, local, newest, faults>>

UnlinkKey(p) ==
  /\ pc[p] = "unlinkKey" /\ key' = NoKey
  /\ \/ life.command[p] = "purge" /\ cont[p] # "migrate" /\ Go(p, "remove") /\ UNCHANGED mem
     \/ ~(life.command[p] = "purge" /\ cont[p] # "migrate") /\ Go(p, "truncate") /\ Stored(p, "keyring")
  /\ UNCHANGED <<life, config, keyring, secret, made, cont, storing, token, myKey, used, newest, faults>>

\* store_secret raised: the migration is skipped, the wizard keeps the password in
\* its config ("in-memory only") and saves it.  In load_secret it means no secret.
Failed(p) ==
  /\ pc[p] = "failed"
  /\ \/ cont[p] = "migrate" /\ Go(p, AfterLoad(p)) /\ cont' = [cont EXCEPT ![p] = None]
        /\ UNCHANGED mem
     \/ /\ cont[p] = "init" /\ Go(p, "truncate") /\ UNCHANGED cont
        /\ mem' = [mem EXCEPT ![p] = [@ EXCEPT !.pw = storing[p]]]
     \/ cont[p] = "decrypt" /\ Go(p, "done") /\ UNCHANGED <<cont, mem>>
  /\ UNCHANGED <<life, files, storing, token, myKey, used, newest, faults>>

\* Where a command goes on after save_config, whose result nobody looks at.  The
\* migration prints that the password "has been removed from config.toml".
AfterSave(p, said) ==
  /\ Go(p, IF cont[p] = "init" THEN "done" ELSE AfterLoad(p))
  /\ cont' = [cont EXCEPT ![p] = IF @ = "migrate" THEN said ELSE IF @ = "init" THEN @ ELSE None]
  /\ newest' = IF cont[p] = "init" /\ storing[p] # None THEN storing[p] ELSE newest

\* save_config opens the file for writing, and writes.
Truncate(p) ==
  /\ Step(p, "truncate", "write") /\ config' = [state |-> "torn", data |-> Defaults]
  /\ UNCHANGED <<life, keyring, secret, key, made, local, newest, faults>>

Write(p) ==
  /\ pc[p] = "write" /\ AfterSave(p, "migrated")
  /\ config' = [state |-> "ok", data |-> mem[p]]
  /\ UNCHANGED <<life, keyring, secret, key, made, mem, storing, token, myKey, used, faults>>

\* The disk refuses to open a file for writing, or to take what is written: save_config
\* returns False, and _write_private raises.
Refused(p) ==
  /\ faults < life.faults /\ faults' = faults + 1
  /\ \/ pc[p] \in {"truncate", "write"} /\ AfterSave(p, "unsaved")
     \/ /\ pc[p] \in {"keyTruncate", "keyWrite", "secretTruncate", "secretWrite"}
        /\ Go(p, "failed") /\ UNCHANGED <<cont, newest>>
  /\ UNCHANGED <<life, files, mem, storing, token, myKey, used>>

-----------------------------------------------------------------------------
(* The commands.                                                           *)

\* config --init: a user name, and a password or none (Enter keeps what there is).
Prompt(p) ==
  /\ pc[p] = "prompt" /\ cont' = [cont EXCEPT ![p] = "init"]
  /\ mem' = [mem EXCEPT ![p] = [@ EXCEPT !.user = TRUE]]
  /\ \/ Go(p, "store") /\ storing' = [storing EXCEPT ![p] = "new"]
     \/ Go(p, "truncate") /\ storing' = [storing EXCEPT ![p] = None]
  /\ UNCHANGED <<life, files, token, myKey, used, newest, faults>>

\* The job of `gpualert run` is over and send looks the password up: its own config
\* first, then load_secret.  Not configured, it sends nothing.
Send(p) ==
  /\ pc[p] = "send"
  /\ LET configured == mem[p].user /\ (mem[p].pw # None \/ mem[p].backend # "")
         found == IF mem[p].pw # None THEN mem[p].pw
                  ELSE IF p \in life.keyring THEN keyring ELSE None
     IN \/ ~configured /\ Go(p, "done") /\ used' = [used EXCEPT ![p] = "unconfigured"] /\ UNCHANGED cont
        \/ configured /\ found # None /\ Go(p, "done") /\ used' = [used EXCEPT ![p] = found]
           /\ UNCHANGED cont
        \/ configured /\ found = None /\ Go(p, "readSecret") /\ UNCHANGED <<used, cont>>
  /\ UNCHANGED <<life, files, mem, storing, token, myKey, newest, faults>>

\* SECRET_FILE.read_bytes(); what was read is decrypted with the key.
ReadSecret(p) ==
  /\ pc[p] = "readSecret"
  /\ IF secret.state = "absent" THEN Go(p, "done") /\ UNCHANGED <<cont, token>>
     ELSE /\ Go(p, "key") /\ cont' = [cont EXCEPT ![p] = "decrypt"]
          /\ token' = [token EXCEPT ![p] = secret]
  /\ UNCHANGED <<life, files, mem, storing, myKey, used, newest, faults>>

Decrypt(p) ==
  /\ Step(p, "decrypt", "done")
  /\ used' = [used EXCEPT ![p] = IF token[p].state = "ok" /\ token[p].key = myKey[p]
                                 THEN token[p].pw ELSE None]
  /\ UNCHANGED <<life, files, cont, mem, storing, token, myKey, newest, faults>>

\* _run_purge: the entry of the user its config names, the files, the directory.
PurgeUser_Unread(p) == FALSE
PurgeUser(p) == mem[p].user

KeyringGone(p) ==
  /\ Step(p, "keyringGone", "shredSecret") /\ newest' = None
  /\ keyring' = IF PurgeUser(p) /\ p \in life.keyring THEN None ELSE keyring
  /\ UNCHANGED <<life, config, secret, key, made, local, faults>>

Removed == [state |-> "absent", data |-> Defaults]

Remove(p) ==
  /\ Step(p, "remove", "done")
  /\ config' = Removed /\ secret' = NoSecret /\ key' = NoKey
  /\ UNCHANGED <<life, keyring, made, local, newest, faults>>

\* config --reset: what is left in the stores is no longer the user's choice.
Delete(p) ==
  /\ Step(p, "delete", "done") /\ config' = Removed /\ newest' = None
  /\ UNCHANGED <<life, keyring, secret, key, made, local, faults>>

Crash(p) ==
  /\ faults < life.faults /\ Running(p)
  /\ Go(p, "dead") /\ faults' = faults + 1
  /\ UNCHANGED <<life, files, local, newest>>

StoreSteps(p) ==
  \/ Store(p) \/ Key(p) \/ KeyTruncate(p) \/ KeyWrite(p) \/ SecretTruncate(p) \/ SecretWrite(p)
  \/ ShredSecret(p) \/ UnlinkSecret(p) \/ ShredKey(p) \/ UnlinkKey(p) \/ Failed(p)

Next == \E p \in Procs :
  \/ Start(p) \/ Exists(p) \/ Read(p) \/ StoreSteps(p) \/ Truncate(p) \/ Write(p) \/ Prompt(p)
  \/ Send(p) \/ ReadSecret(p) \/ Decrypt(p) \/ KeyringGone(p) \/ Remove(p) \/ Delete(p)
  \/ Refused(p) \/ Crash(p)

Spec == Init /\ [][Next]_vars

-----------------------------------------------------------------------------
Data == [user : BOOLEAN, pw : Passwords \cup {None}, backend : {"", "keyring", "file"}]

\* Contents of secret.enc, under the keys made so far.
Secrets == [state : {"absent", "torn", "ok"}, pw : Passwords \cup {None}, key : -1..made]

Places ==
  {"new", "exists", "read", "store", "key", "keyTruncate", "keyWrite", "secretTruncate",
   "secretWrite", "shredSecret", "unlinkSecret", "shredKey", "unlinkKey", "failed", "truncate",
   "write", "prompt", "send", "readSecret", "decrypt", "keyringGone", "remove", "delete"} \cup Over

TypeOK ==
  /\ life \in Lives
  /\ config \in [state : {"absent", "torn", "ok"}, data : Data]
  /\ keyring \in Passwords \cup {None} /\ secret \in Secrets
  /\ made \in Nat /\ key \in -1..made
  /\ pc \in [Procs -> Places]
  /\ cont \in [Procs -> {None, "loaded", "migrate", "migrated", "unsaved", "init", "decrypt"}]
  /\ mem \in [Procs -> Data] /\ storing \in [Procs -> Passwords \cup {None}]
  /\ token \in [Procs -> Secrets] /\ myKey \in [Procs -> -1..made]
  /\ used \in [Procs -> Passwords \cup {None, "unconfigured"}]
  /\ newest \in Passwords \cup {None} /\ faults \in Nat

Decryptable == secret.state = "ok" /\ secret.key = key

\* The password a send would use now, by a process for which the keyring works or not.
Effective(works) ==
  IF config.data.pw # None THEN config.data.pw
  ELSE IF works /\ keyring # None THEN keyring
  ELSE IF Decryptable THEN secret.pw ELSE None

Kept(pw) == config.data.pw = pw \/ keyring = pw \/ (Decryptable /\ secret.pw = pw)

\* Nobody but the migration touches the password.
Upgrading == life.legacy /\ \A p \in Procs : life.command[p] \in {"load", "run", None}

\* Upgrading: at every instant, whatever was killed or refused before, the password of
\* 0.1.3 can be had from one of the three places.
LegacyKept == Upgrading => Kept("old")

\* When a process has said that it removed the password from config.toml, and its
\* save went through, the password is not there, and no other process, whatever becomes
\* of it, brings it back.
Scrubbed == Upgrading => \A p \in Procs : cont[p] = "migrated" => config.data.pw = None

\* What the process prints is more than that: it says so whether or not the save
\* went through.
SaidScrubbed ==
  Upgrading => \A p \in Procs : cont[p] \in {"migrated", "unsaved"} => config.data.pw = None

\* Commands one after another, with a keyring that works for all of them or for none.
OneByOne == life.serial /\ life.keyring \in {{}, Procs}

\* Such commands, none of them killed and no write refused: after each of them every
\* process would send with the password stored last.
NewestWins ==
  OneByOne /\ Idle /\ faults = 0 /\ newest # None =>
    Effective(life.keyring # {}) = newest

\* Such a run sends with the password stored last; it takes itself for unconfigured
\* only if there is none.
SendsRight ==
  [][\A p \in Procs :
       OneByOne /\ faults = 0 /\ life.command[p] = "run" /\ pc[p] # "done" /\ pc'[p] = "done" =>
         used'[p] = IF newest = None THEN "unconfigured" ELSE newest]_vars

\* Such an uninstall, when done, leaves nothing of the password anywhere, if config.toml
\* still named the user.
PurgedClean ==
  [][\A p \in Procs : OneByOne /\ Remove(p) =>
       /\ secret'.state = "absent" /\ key' = NoKey /\ config'.state = "absent"
       /\ mem[p].user => keyring = None]_vars
=============================================================================
