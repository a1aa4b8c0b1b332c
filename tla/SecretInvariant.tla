-------------------------- MODULE SecretInvariant ---------------------------
(***************************************************************************)
(* What holds of SecretStore between its steps, in the form in which each  *)
(* step preserves it: at each place of a command, what the process has in  *)
(* memory and what it may rely on in the stores.  The properties of        *)
(* SecretStore follow from it.                                             *)
(***************************************************************************)
EXTENDS SecretStore

\* The places of a command in store_secret, by the branch it takes.
KeyPlaces == {"key", "keyTruncate", "keyWrite"}
FilePlaces == KeyPlaces \cup {"secretTruncate", "secretWrite"}
ShredPlaces == {"shredSecret", "unlinkSecret", "shredKey", "unlinkKey"}
SavePlaces == {"truncate", "write"}

\* What a migration that is over has said, with its save or without.
Said == {"migrated", "unsaved"}

\* A process that has started has a command, and is only at places of that command.
Shredding(p) == life.command[p] = "purge" /\ cont[p] # "migrate"

Placed(p) ==
  /\ pc[p] # "new" => life.command[p] # None
  /\ pc[p] \in {"new", "exists", "read"} => cont[p] = None /\ mem[p] = Defaults
  /\ pc[p] \in {"send", "readSecret", "prompt", "keyringGone", "delete", "remove"}
       => cont[p] \in {None} \cup Said
  /\ pc[p] \in {"send", "readSecret"} => life.command[p] = "run"
  /\ pc[p] = "prompt" => life.command[p] = "init"
  /\ pc[p] \in {"keyringGone", "remove"} => life.command[p] = "purge"
  /\ pc[p] = "delete" => life.command[p] = "reset"
  /\ pc[p] \in {"store", "secretTruncate", "secretWrite"} => cont[p] \in {"migrate", "init"}
  /\ pc[p] \in KeyPlaces \cup {"failed"} => cont[p] \in {"migrate", "init", "decrypt"}
  /\ pc[p] \in ShredPlaces
       => cont[p] \in {"migrate", "init"} \/ (Shredding(p) /\ cont[p] \in {None} \cup Said)
  /\ pc[p] \in SavePlaces => cont[p] \in {"loaded", "migrate", "init"}
  /\ pc[p] = "decrypt" => cont[p] = "decrypt"
  /\ cont[p] = "init" => life.command[p] = "init"
  /\ cont[p] = "decrypt" => life.command[p] = "run"

-----------------------------------------------------------------------------
(* An upgrade: several first commands at once.                             *)

\* What each of them knows: the one password there is, and that config.toml is there.
Upgraded(p) ==
  /\ {mem[p].pw, storing[p]} \subseteq {None, "old"}
  /\ mem[p].pw # None => mem[p].user /\ mem[p].backend = ""
  /\ cont[p] \in {None, "migrate", "decrypt"} \cup Said
  /\ pc[p] \in {"store", "failed"} \cup FilePlaces /\ cont[p] = "migrate"
       => storing[p] = "old" /\ mem[p].user
  /\ pc[p] \in FilePlaces \cup {"failed"} /\ cont[p] = "migrate" => p \notin life.keyring
  /\ pc[p] \in ShredPlaces => keyring = "old"
  /\ pc[p] \in SavePlaces => mem[p].pw = None
  /\ pc[p] \in {"readSecret", "key", "keyTruncate", "keyWrite", "decrypt"} /\ cont[p] # "migrate"
       => mem[p].backend # ""

OnePassword ==
  /\ config.state # "absent" /\ config.data.pw \in {None, "old"}
  /\ config.data.pw # None => config.data.user /\ config.data.backend = ""
  /\ keyring \in {None, "old"} /\ secret.pw \in {None, "old"}
  /\ \A p \in Procs : Upgraded(p)

\* As long as the keyring has no password, only the process f without a keyring can move
\* it.  Before f has written secret.enc everything is as it was; afterwards the file has it.
InFile == secret = [state |-> "ok", pw |-> "old", key |-> key] /\ key # NoKey

Before(f) ==
  /\ config.data.pw = "old"
  /\ \A p \in Procs : mem[p].backend = "" /\ pc[p] \notin SavePlaces /\ cont[p] # "decrypt"
  /\ pc[f] = "keyWrite" => myKey[f] # NoKey
  /\ pc[f] \in {"secretTruncate", "secretWrite"} => myKey[f] = key /\ key # NoKey

After(f) ==
  /\ InFile
  /\ \A p \in Procs : cont[p] = "decrypt" => pc[p] \notin {"keyTruncate", "keyWrite"}
  /\ pc[f] \notin {"new", "exists", "read", "store"}
  /\ pc[f] \in FilePlaces \cup {"failed"} => cont[f] = "decrypt"

Handed(f) == keyring = "old" \/ Before(f) \/ After(f)

\* The keyring fails for one process at most.
OneWithout(f) == Procs \ {f} \subseteq life.keyring

\* Whoever has removed the password from config.toml: nobody brings it back.
Scrub ==
  \A p \in Procs : /\ pc[p] = "write" => config.data.pw = None
                   /\ cont[p] = "migrated" => config.data.pw = None

Upgrade ==
  Upgrading => /\ OnePassword /\ Scrub
               /\ \A f \in Procs : OneWithout(f) => Handed(f)

-----------------------------------------------------------------------------
(* One command after another, with or without a keyring.                   *)

Works == life.keyring # {}

Alone == \A p, q \in Procs : Running(p) /\ Running(q) => p = q

\* A password is never without its user, so that a keyring that works takes it.
Named ==
  /\ config.data.pw # None => config.data.user
  /\ \A p \in Procs :
       /\ mem[p].pw # None => mem[p].user
       /\ /\ pc[p] \in {"store", "failed"} \cup FilePlaces \cup ShredPlaces
          /\ cont[p] \in {"migrate", "init"}
          => mem[p].user

\* Each of the stores is used only with or only without the keyring.
OneStore ==
  /\ ~Works => keyring = None
  /\ Works => secret = NoSecret /\ key = NoKey
  /\ \A p \in Procs : pc[p] \in FilePlaces => ~Works

\* uninstall has removed the keyring entry, unless config.toml no longer named its user.
Purging(p) ==
  (pc[p] \in ShredPlaces /\ Shredding(p)) \/ pc[p] = "remove" => (mem[p].user => keyring = None)

\* Nobody was killed and nothing refused: the password stored last is where the configuration says.
InStore(n) ==
  IF Works THEN keyring = n ELSE secret = [state |-> "ok", pw |-> n, key |-> key] /\ key # NoKey

GoodFor(data, n) ==
  IF n = None THEN data.pw = None /\ data.backend = ""
  ELSE data.user /\ (data.pw = n \/ (data.pw = None /\ data.backend # "" /\ InStore(n)))

\* What the command of p is about to make the newest password.
Target(p) == IF cont[p] = "init" /\ storing[p] # None THEN storing[p] ELSE newest

Loaded(p) == GoodFor(config.data, newest) /\ mem[p] = config.data

Settled(p) ==
  /\ pc[p] \in {"exists", "read"} => GoodFor(config.data, newest)
  /\ pc[p] \in {"send", "prompt", "keyringGone", "delete"} => Loaded(p)
  /\ pc[p] \in {"store"} \cup FilePlaces \cup ShredPlaces /\ cont[p] \in {"migrate", "init"}
       => storing[p] # None /\ Target(p) = storing[p]
  /\ pc[p] \in ShredPlaces /\ ~Shredding(p) => Works /\ keyring = storing[p]
  /\ pc[p] = "keyWrite" => myKey[p] \notin {NoKey, Torn}
  /\ pc[p] \in {"secretTruncate", "secretWrite"} => myKey[p] = key /\ key # NoKey
  /\ pc[p] \in SavePlaces => GoodFor(mem[p], Target(p))
  /\ (pc[p] \in ShredPlaces /\ Shredding(p)) \/ pc[p] = "remove" => newest = None
  /\ pc[p] = "readSecret" \/ (pc[p] \in FilePlaces \cup {"decrypt"} /\ cont[p] = "decrypt")
       => newest # None /\ Loaded(p) /\ InStore(newest) /\ ~Works
  /\ pc[p] \in FilePlaces \cup {"decrypt"} /\ cont[p] = "decrypt" => token[p] = secret
  /\ pc[p] = "decrypt" => myKey[p] = key
  /\ pc[p] \in {"keyTruncate", "keyWrite"} => cont[p] # "decrypt"
  /\ pc[p] # "failed"

\* An empty file for a key is there only while somebody is about to write or to unlink it.
NoTornKey == key = Torn => \E p \in Procs : pc[p] \in {"keyWrite", "unlinkKey"}

Managed ==
  OneByOne =>
    /\ Alone /\ Named /\ OneStore /\ \A p \in Procs : Purging(p)
    /\ faults = 0 =>
         /\ NoTornKey /\ (config.state # "ok" => config.data = Defaults)
         /\ \A p \in Procs : Running(p) => Settled(p)
         /\ Idle => GoodFor(config.data, newest)

Inductive == TypeOK /\ (\A p \in Procs : Placed(p)) /\ Upgrade /\ Managed
=============================================================================
