-------------------------- MODULE VaultRefinement --------------------------
(***************************************************************************)
(* The vault of one process implements RecordStore: reading through the    *)
(* keyring hides the keys, and every step of a rotation is a stutter.      *)
(***************************************************************************)
EXTENDS Vault

CONSTANT Lost          \* reads as nothing that was ever put

ASSUME LostAssumption == \A map \in SUBSET Tokens : map # Lost

\* The keyring a boot would find once a save under way has finished; {} if the
\* file is Torn for good.
SurvivingKeys ==
    IF ringFile \in Ring THEN ringFile.keys
    ELSE UNION {ring[p].keys : p \in {q \in Procs : pc[q] \in {"create", "save"}}}

Writers(r) == {p \in Procs : pending[p] # None /\ pending[p].item = r}

\* What reading r gives, a write under way counting as done.
Reads(r) ==
    IF Writers(r) # {} THEN pending[CHOOSE p \in Writers(r) : TRUE].blob.val
    ELSE IF disk[r] = Absent THEN IF r = EntityMap THEN {} ELSE Absent
    ELSE IF disk[r] = Torn \/ disk[r].key \notin SurvivingKeys THEN Lost
    ELSE disk[r].val

\* What a caller sees: every record, and whether a process is there to ask.
Contents == [r \in Items |-> Reads(r)]
Running == \E p \in Procs : pc[p] # "down"

Store == INSTANCE RecordStore WITH
    Records <- Metas \cup Medias, val <- Contents, up <- Running

\* Every behaviour of the vault is one of the record store.
ImplementsRecordStore == Store!Spec

============================================================================
