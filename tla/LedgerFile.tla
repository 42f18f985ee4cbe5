---------------------------- MODULE LedgerFile ----------------------------
(***************************************************************************)
(* The provenance files and the two plugins that append to them: the       *)
(* ledger (plugins/builtin/ledger_basic) and the anchor store              *)
(* (plugins/builtin/anchor_basic).  The module holds their state and their *)
(* operations; the modules that write provenance EXTEND it and conjoin the *)
(* operations to their own actions.                                        *)
(*                                                                         *)
(* A line's entry_hash is sha256 over the canonical line and the previous  *)
(* hash.  No two lines collide, and a line's hash never changes, so the    *)
(* hash of the n-th line of the file is modelled by the number n, and the  *)
(* prev_hash of a file with no earlier line (None) by 0.                   *)
(***************************************************************************)
EXTENDS Naturals, Sequences

CONSTANT Procs         \* operating-system processes that have booted the kernel

VARIABLES
    ledger,            \* ledger.ndjson: lines [body, prev]
    anchors,           \* anchors.ndjson: lines [seq, head]
    head,              \* LedgerWriter._last_hash, one per process
    anchorSeq          \* AnchorWriter._seq, one per process

ledgerVars == <<ledger, anchors, head, anchorSeq>>

NoHash == 0

LedgerTypeOK(Body) ==
    /\ ledger \in Seq([body : Body, prev : Nat])
    /\ anchors \in Seq([seq : Nat, head : Nat])
    /\ head \in [Procs -> Nat]
    /\ anchorSeq \in [Procs -> Nat]

LedgerInit ==
    /\ ledger = << >>
    /\ anchors = << >>
    /\ head = [p \in Procs |-> NoHash]
    /\ anchorSeq = [p \in Procs |-> 0]

\* Mutation of OpenWriters: the constructors ignore the files they append to.
OpenWritersFresh(p) ==
    /\ head' = [head EXCEPT ![p] = NoHash]
    /\ anchorSeq' = [anchorSeq EXCEPT ![p] = 0]
    /\ UNCHANGED <<ledger, anchors>>

(***************************************************************************)
(* Constructors: _last_hash becomes the hash of the last line of the       *)
(* ledger file, _seq the number of lines of the anchor file.               *)
(***************************************************************************)
OpenWriters(p) ==
    /\ head' = [head EXCEPT ![p] = Len(ledger)]
    /\ anchorSeq' = [anchorSeq EXCEPT ![p] = Len(anchors)]
    /\ UNCHANGED <<ledger, anchors>>

\* LedgerWriter.append: chain to the hash this process remembers.
LedgerAppend(p, body) ==
    /\ ledger' = Append(ledger, [body |-> body, prev |-> head[p]])
    /\ head' = [head EXCEPT ![p] = Len(ledger) + 1]
    /\ UNCHANGED <<anchors, anchorSeq>>

\* AnchorWriter.anchor(ledger_hash), the hash being what append returned.
AnchorHead(p) ==
    /\ anchors' = Append(anchors, [seq |-> anchorSeq[p], head |-> head[p]])
    /\ anchorSeq' = [anchorSeq EXCEPT ![p] = @ + 1]
    /\ UNCHANGED <<ledger, head>>

----------------------------------------------------------------------------
(* What a verifier of the two files relies on.                             *)

\* "Ledger entries are hash-chained" (contracts/security.md:22): each line's
\* prev_hash is the hash of the line before it, across restarts.
ChainVerifies == \A i \in DOMAIN ledger : ledger[i].prev = i - 1

\* anchor_seq numbers the anchor lines 0, 1, 2, ... without gap or repeat, and
\* the heads they record are ledger lines in the order they were written.
AnchorsNumbered ==
    /\ \A i \in DOMAIN anchors :
         /\ anchors[i].seq = i - 1
         /\ anchors[i].head \in DOMAIN ledger
    /\ \A i, j \in DOMAIN anchors : i < j => anchors[i].head < anchors[j].head

============================================================================
