----------------------------- MODULE UserConfig -----------------------------
(***************************************************************************)
(* The configuration files (kernel/config.py): config/default.json, which  *)
(* is shipped, the user's config/user.json and its only backup, under the  *)
(* commands `config reset` and `config restore`.                           *)
(*                                                                         *)
(* A file that is opened for writing is truncated at once and whole again  *)
(* when the writer is done, so that a process killed in between leaves it  *)
(* Torn.  One command runs at a time.                                      *)
(***************************************************************************)
EXTENDS Naturals

CONSTANTS Default,     \* config/default.json: a record of all settings
          Overrides,   \* what a user may write: records of some of the settings
          Absent, Torn \* a file that is not there; a truncated one

VARIABLES
    userFile,          \* config/user.json
    backupFile,        \* config/backup/user.json
    cmd,               \* where the running command is, or "none"
    written,           \* history: what the user last wrote
    discarded          \* history: the user gave a command that discards it

files == <<userFile, backupFile, written, discarded>>

File == {Absent, Torn, Default} \cup Overrides
Commands == {"backup", "reset", "dump", "copy"}

FilesTypeOK ==
    /\ userFile \in File /\ backupFile \in File
    /\ written \in File
    /\ discarded \in BOOLEAN

FilesInit ==
    /\ userFile = Absent /\ backupFile = Absent
    /\ cmd = "none"
    /\ written = Absent
    /\ discarded = FALSE

----------------------------------------------------------------------------

\* dict.update: what entries has replaces what base has.
Update(base, entries) ==
    [x \in DOMAIN base \cup DOMAIN entries |->
        IF x \in DOMAIN entries THEN entries[x] ELSE base[x]]

\* _deep_merge: lists and scalars of the user's replace the default's, the one
\* dictionary that is not a fixed record (plugins.enabled) is merged key by key.
Merged(base, override) ==
    [f \in DOMAIN base |->
        IF f \notin DOMAIN override THEN base[f]
        ELSE IF f = "enabled" THEN Update(base[f], override[f]) ELSE override[f]]

\* The schema; "bad" stands for every setting it refuses.
Valid(config) == config.top # "bad"

\* The user's editor.
Edit ==
    /\ cmd = "none"
    /\ userFile' \in Overrides
    /\ written' = userFile'
    /\ discarded' = FALSE
    /\ UNCHANGED <<backupFile, cmd>>

\* `config reset`: backup_user_config, if there is something to back up ...
BeginBackup ==
    /\ cmd = "none" /\ userFile # Absent
    /\ cmd' = "backup"
    /\ backupFile' = Torn
    /\ discarded' = (discarded \/ userFile # written)
    /\ UNCHANGED <<userFile, written>>

EndBackup ==
    /\ cmd = "backup"
    /\ cmd' = "reset"
    /\ backupFile' = userFile
    /\ UNCHANGED <<userFile, written, discarded>>

\* Mutation of BackedUp: the user's file is opened before it is backed up.
BackedUpLater == cmd \in {"backup", "reset"} \/ (cmd = "none" /\ userFile = Absent)
BackedUp == cmd = "reset" \/ (cmd = "none" /\ userFile = Absent)

\* ... then the defaults are written over it.
BeginReset ==
    /\ BackedUp
    /\ cmd' = "dump"
    /\ userFile' = Torn
    /\ UNCHANGED <<backupFile, written, discarded>>

EndReset ==
    /\ cmd = "dump"
    /\ cmd' = "none"
    /\ userFile' = Default
    /\ UNCHANGED <<backupFile, written, discarded>>

\* `config restore`; without a backup it is a ConfigError.
BeginRestore ==
    /\ cmd = "none" /\ backupFile # Absent
    /\ cmd' = "copy"
    /\ userFile' = Torn
    /\ discarded' = (discarded \/ (userFile = written /\ backupFile # written))
    /\ UNCHANGED <<backupFile, written>>

EndRestore ==
    /\ cmd = "copy"
    /\ cmd' = "none"
    /\ userFile' = backupFile
    /\ UNCHANGED <<backupFile, written, discarded>>

\* The process is killed.
CommandDies ==
    /\ cmd \in Commands
    /\ cmd' = "none"
    /\ UNCHANGED files

ConfigCommand ==
    \/ Edit
    \/ BeginBackup \/ EndBackup \/ BeginReset \/ EndReset
    \/ BeginRestore \/ EndRestore
    \/ CommandDies

----------------------------------------------------------------------------

\* "backs up the prior file" (contracts/user_surface.md): whatever a reset or a
\* restore is killed in the middle of, what the user wrote is in one of the two
\* files, until they reset what is not theirs any more (a file a first reset
\* has written or torn) or restore over what still is.
WrittenSurvives ==
    ~discarded /\ written # Absent => written \in {userFile, backupFile}

============================================================================
