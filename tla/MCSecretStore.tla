--------------------------- MODULE MCSecretStore ----------------------------
(* The lives of an installation that the runs look at.                         *)
EXTENDS SecretInvariant, TLC

CONSTANTS a, b, c, d

Two == {a, b}
Four == {a, b, c, d}

\* The first commands after an upgrade, all at once; the keyring fails one at most.
Upgraders == a :> "load" @@ b :> "run" @@ c :> "load" @@ d :> None
Upgrades ==
  [command : {Upgraders}, keyring : {Four \ {p} : p \in Four}, machineId : BOOLEAN, legacy : {TRUE},
   serial : {FALSE}, faults : {2}]

\* The commands of a longer life, one after another; the keyring works, or does not.
Manage == a :> "init" @@ b :> "run" @@ c :> "purge" @@ d :> "reset"
Managements ==
  [command : {Manage}, keyring : {{}, Four}, machineId : BOOLEAN, legacy : {TRUE},
   serial : {TRUE}, faults : {1}]

MCLives == Upgrades \cup Managements

\* Two first commands at once, without a keyring.
Races ==
  [command : {a :> "load" @@ b :> "run"}, keyring : {{}}, machineId : {TRUE}, legacy : {TRUE},
   serial : {FALSE}, faults : {0}]
=============================================================================
