------------------------------- MODULE MCBoot -------------------------------
(* Six manifests, one of them a second one of the id "base", which nobody  *)
(* locked.  gate needs tool, which comes after it; tool needs base, and    *)
(* both offer "store".                                                     *)
EXTENDS Boot

MCIds == {"base", "gate", "meta", "policy", "tool"}

Plugin(id, network, locked, deps, entries) ==
    [id |-> id, extra |-> FALSE, enabled |-> TRUE, deps |-> deps, network |-> network,
     locked |-> locked, entries |-> entries]

MCManifests ==
    << Plugin("base", FALSE, TRUE, {}, << {"store"} >>),
       Plugin("gate", TRUE, TRUE, {"tool"}, << {"egress"} >>),
       Plugin("meta", FALSE, TRUE, {}, << {"meta.configurator"} >>),
       Plugin("policy", FALSE, TRUE, {}, << {"meta.policy"} >>),
       Plugin("tool", FALSE, TRUE, {"base"}, << {"tool"}, {"store"} >>),
       [Plugin("base", FALSE, FALSE, {}, << {"store", "egress"} >>) EXCEPT !.extra = TRUE] >>

MCDefault ==
    [safeMode |-> FALSE, allow |-> {"base", "gate", "meta", "policy", "tool"},
     pack |-> {"base", "gate", "tool"},
     enabled |-> [i \in {"gate", "meta", "policy"} |-> i = "gate"],
     searched |-> FALSE, enforce |-> TRUE, hosted |-> TRUE,
     inproc |-> {"base", "gate", "tool"}, net |-> {"gate"},
     configurators |-> {}, policies |-> {}, top |-> "as shipped"]

WithMeta == [i \in {"meta", "policy"} |-> TRUE]

MCOverrides ==
    { [enabled |-> WithMeta, configurators |-> {"meta"}, policies |-> {"policy"},
       inproc |-> MCIds],
      [enabled |-> [i \in {"policy"} |-> TRUE], policies |-> {"policy"}],
      [enabled |-> [i \in {"base"} |-> FALSE]],
      [searched |-> TRUE, enforce |-> FALSE],
      [searched |-> TRUE],
      [safeMode |-> TRUE, pack |-> {"gate", "meta", "tool"}, configurators |-> {"meta"},
       inproc |-> MCIds],
      [top |-> "bad"] }

\* More permission, less of the system, a section of its own, nonsense.
MCProposals ==
    { [net |-> {"gate", "tool"}], [enabled |-> [i \in {"tool"} |-> FALSE]],
      [pack |-> MCIds, safeMode |-> TRUE], [top |-> "changed"], [top |-> "bad"] }

MCGrants == { {}, {"gate"}, {"gate", "tool"} }

============================================================================
