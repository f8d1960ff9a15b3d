---------------------------- MODULE EngineVault ----------------------------
(***************************************************************************)
(* What the lifecycle of an engine promises about the user's data, and     *)
(* nothing about how: a volume, the daily backups, the permanent archives, *)
(* and copies on their way from the one to the others.  A volume is never  *)
(* blanked while it exists; it goes only once an archive is there; and     *)
(* what is restored into it was stored before.                             *)
(***************************************************************************)
CONSTANTS
  Writes,   \* what a user can add to a volume
  None      \* no volume

VARIABLES
  volume,   \* the set of writes it holds, or None
  backups,  \* contents of the daily backups
  archive,  \* contents of the permanent archives
  copying   \* tars taken and not stored yet

vars == <<volume, backups, archive, copying>>

Init == volume = None /\ backups = {} /\ archive = {} /\ copying = {}

Provision ==
  /\ volume = None /\ volume' = {}
  /\ UNCHANGED <<backups, archive, copying>>

Write ==
  /\ volume # None
  /\ \E w \in Writes : volume' = volume \cup {w}
  /\ UNCHANGED <<backups, archive, copying>>

Copy ==
  /\ volume # None
  /\ copying' = copying \cup {volume}
  /\ UNCHANGED <<volume, backups, archive>>

(* A copy, or the volume as it is, becomes the backup of the day in place  *)
(* of the one there was.                                                   *)
Store ==
  /\ \E c \in copying \cup ({volume} \ {None}) :
       c \in backups' /\ backups' \subseteq backups \cup {c}
  /\ copying' \subseteq copying
  /\ UNCHANGED <<volume, archive>>

(* Copies under way are lost, old backups expire.                          *)
Forget ==
  /\ copying' \subseteq copying
  /\ backups' \subseteq backups
  /\ UNCHANGED <<volume, archive>>

Archive ==
  /\ \E c \in backups : archive' = archive \cup {c}
  /\ UNCHANGED <<volume, backups, copying>>

Reclaim ==
  /\ archive # {}
  /\ volume' = None
  /\ UNCHANGED <<backups, archive, copying>>

Restore ==
  /\ volume # None
  /\ volume' \in backups \cup archive
  /\ UNCHANGED <<backups, archive, copying>>

Next == Provision \/ Write \/ Copy \/ Store \/ Forget \/ Archive \/ Reclaim \/ Restore

Spec == Init /\ [][Next]_vars

=============================================================================
