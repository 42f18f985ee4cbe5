------------------------------- MODULE Egress -------------------------------
(***************************************************************************)
(* The egress gateway and the sanitizer it sends payloads through, over    *)
(* the entity map of storage_encrypted (plugins/builtin/egress_gateway,    *)
(* egress_sanitizer).  One process at a time; it may die between any two   *)
(* steps and be booted again.                                              *)
(*                                                                         *)
(* A field of a payload is one text, a sequence of letters; a string is    *)
(* sanitized as EntityScan says, the key of a dictionary not at all.       *)
(* A token is a prefix of a digest, taken in slices: 16 bytes, then 4 more *)
(* at a time up to all 32.                                                 *)
(***************************************************************************)
EXTENDS EntityScan

CONSTANTS
    Payloads,          \* what send() is given: functions from fields to texts
    Recognisers,       \* what the patterns match: functions from texts to matches
    Configs,           \* configurations of privacy.egress and privacy.cloud
    Digest(_, _, _),   \* HMAC of a value and a kind under a key, as a sequence of slices
    Slices,            \* number of slices of a digest (5 in the code)
    MaxKey,            \* BOUND on the keys generated in a behaviour
    Torn               \* the entity map's file is truncated

ASSUME EgressAssumption ==
    /\ MaxKey \in Nat \ {0} /\ Slices \in Nat \ {0}
    /\ \A p \in Payloads : \A f \in DOMAIN p : Len(p[f]) \in Nat
    /\ \A r \in Recognisers : \A p \in Payloads : \A f \in DOMAIN p :
         \A m \in r[p[f]] : m \in [start : Nat, end : 0..Len(p[f]), kind : Kinds] /\ m.start < m.end

VARIABLES
    config, recognise, \* the configuration; the recognisers it switches on
    ringKey,           \* the active key of keyring.json
    mapFile,           \* entity_map.json: Torn, or a set of entries
    stage,             \* where the process is
    entityKey,         \* EgressSanitizer._entity_key, 0 for None
    entries,           \* EntityMapStore._data: entries [token, value, kind]
    payload, todo,     \* the payload being sent and its fields not yet sanitized
    field,             \* the field being sanitized
    level,             \* slices in the token being tried
    kept,              \* [fields -> the texts of its output that are no tokens]
    tokens,            \* _tokens: entries
    sent,              \* the packet the last send() handed to the provider, if any
    issued             \* entries of the packets sent, with the key of the token

procVars == <<stage, entityKey, entries, payload, todo, field, level, kept, tokens>>
vars == <<config, recognise, ringKey, mapFile, procVars, scanVars, sent, issued>>

Config == [enabled : BOOLEAN, cloud : BOOLEAN, sanitize : BOOLEAN, raw : BOOLEAN, packet : BOOLEAN]

ASSUME ConfigAssumption == Configs \subseteq Config

\* Copied by _build_reasoning_packet from the payload and not from its sanitized form.
Verbatim == {"output_contract", "citations_stub"}

\* The texts of a payload that are keys of its dictionaries: _sanitize_value
\* leaves them as they are and _collect_strings does not come to them.
DictKeys == {"facts_key"}

\* Names of kinds TOKEN_RE does not read: its pattern for them is [A-Z_]+.
Unread == {"IPV4"}

Nothing == << >>       \* no payload

EgressTypeOK ==
    /\ ScanTypeOK
    /\ config \in Config /\ recognise \in Recognisers
    /\ ringKey \in 1..MaxKey /\ entityKey \in 0..ringKey
    /\ stage \in {"down", "idle", "fields", "scan", "saveScan", "saveIdle"}
    /\ payload \in Payloads \cup {Nothing}
    /\ todo \subseteq DOMAIN payload
    /\ DOMAIN kept = DOMAIN payload
    /\ level \in 1..(Slices + 1)
    /\ mapFile = Torn \/ mapFile \subseteq entries \/ stage = "down"

Forget ==
    /\ payload' = Nothing /\ todo' = {} /\ field' = "" /\ level' = 1
    /\ kept' = Nothing /\ tokens' = {}

Init ==
    /\ config \in Configs /\ recognise \in Recognisers
    /\ ringKey = 1 /\ mapFile = {} /\ stage = "down" /\ entityKey = 0 /\ entries = {}
    /\ payload = Nothing /\ todo = {} /\ field = "" /\ level = 1
    /\ kept = Nothing /\ tokens = {} /\ sent = {} /\ issued = {}
    /\ StartWith(0, {})

Text == payload[field]
Slice(from, to) == SubSeq(Text, from + 1, to)

----------------------------------------------------------------------------
(* The entity map.                                                         *)

\* dict assignment: the entry of a token replaces the one it had.
Put(map, e) == {d \in map : d.token # e.token} \cup {e}

\* Mutation of Loaded: a map that exists is not read.
LoadedNever == {}

\* EntityMapStore.__init__ reads the file.
Loaded == mapFile

\* A new process; a Torn map makes json.load raise and boot fail.
BootProcess ==
    /\ stage = "down" /\ mapFile # Torn
    /\ entries' = Loaded
    /\ stage' = "idle"
    /\ UNCHANGED <<config, recognise, ringKey, mapFile, entityKey, payload, todo, field,
                   level, kept, tokens, scanVars, sent, issued>>

\* The second half of _save: open(path, "w") left the file Torn.
Save ==
    /\ stage \in {"saveScan", "saveIdle"}
    /\ mapFile' = entries
    /\ stage' = IF stage = "saveScan" THEN "scan" ELSE "idle"
    /\ UNCHANGED <<config, recognise, ringKey, entityKey, entries, payload, todo, field,
                   level, kept, tokens, scanVars, sent, issued>>

\* rotate_keys as far as the sanitizer goes: another active key on disk, and
\* EntityMapStore.rotate saves the map.
RotateKeys ==
    /\ stage = "idle" /\ ringKey < MaxKey
    /\ ringKey' = ringKey + 1
    /\ mapFile' = Torn
    /\ stage' = "saveIdle"
    /\ UNCHANGED <<config, recognise, entityKey, entries, payload, todo, field, level,
                   kept, tokens, scanVars, sent, issued>>

Crash ==
    /\ stage # "down"
    /\ stage' = "down" /\ entityKey' = 0 /\ entries' = {}
    /\ Forget
    /\ Begin(0, {})
    /\ UNCHANGED <<config, recognise, ringKey, mapFile, sent, issued>>

----------------------------------------------------------------------------
(* EgressGateway.send.                                                     *)

Allowed == config.enabled /\ config.cloud

\* The packet: what left as it was, field by field, and the token map.
Packet(parts, toks) ==
    [parts |-> [f \in DOMAIN payload |->
                  IF config.packet /\ f \in Verbatim THEN {payload[f]} ELSE parts[f]],
     tokens |-> toks]

\* The packet goes to the provider.
Emit(parts, toks) ==
    /\ sent' = {Packet(parts, toks)}
    /\ issued' = issued \cup {[token |-> e.token, value |-> e.value, kind |-> e.kind,
                               key |-> entityKey] : e \in toks}

\* send() of any payload.  Refusals change nothing.
Send ==
    /\ stage = "idle" /\ Allowed
    /\ config.sanitize \/ config.raw
    /\ payload' \in Payloads
    /\ todo' = IF config.sanitize THEN DOMAIN payload' \ DictKeys ELSE {}
    /\ kept' = [f \in DOMAIN payload' |-> {payload'[f]}]
    /\ tokens' = {}
    /\ stage' = "fields"
    /\ sent' = {}
    /\ UNCHANGED <<config, recognise, ringKey, mapFile, entityKey, entries, field, level,
                   scanVars, issued>>

\* _sanitize_value comes to a string, sanitize_text to _find_entities.  In which
\* order the caller's dict has its fields is open.
NextField ==
    /\ stage = "fields"
    /\ \E f \in todo :
         /\ field' = f /\ todo' = todo \ {f}
         /\ Begin(Len(payload[f]), recognise[payload[f]])
    /\ stage' = "scan"
    /\ UNCHANGED <<config, recognise, ringKey, mapFile, entityKey, entries, payload,
                   level, kept, tokens, sent, issued>>

FindEntities ==
    /\ stage = "scan" /\ Visit
    /\ UNCHANGED <<config, recognise, ringKey, mapFile, procVars, sent, issued>>

Entity == selected[done + 1]
Value == Slice(Entity.start, Entity.end)

\* _entity_key_bytes: the active key when it is first needed.
Key == IF entityKey = 0 THEN ringKey ELSE entityKey

\* digest[:length]; beyond the digest the slice is all of it.
Candidate ==
    LET digest == Digest(Key, Value, Entity.kind)
    IN SubSeq(digest, 1, IF level < Len(digest) THEN level ELSE Len(digest))

\* Mutation of Taken: what the map already has is not looked at.
TakenNever == FALSE

\* Mutation of Taken: any entry of the token is in the way.
TakenByAny == \E e \in entries : e.token = Candidate

\* existing and existing.get("value") != value
Taken == \E e \in entries : e.token = Candidate /\ e.value # Value

\* Mutation of Longer: the length is not increased.
LongerNot == level

\* length += 4.  Past the digest nothing changes any more, so one level stands
\* for all of those.
Longer == IF level <= Slices THEN level + 1 ELSE level

\* One turn of _token_for's loop that does not find a token.
TryLonger ==
    /\ stage = "scan" /\ Found /\ ~Replaced
    /\ Taken
    /\ level' = Longer
    /\ entityKey' = Key
    /\ UNCHANGED <<config, recognise, ringKey, mapFile, stage, entries, payload, todo,
                   field, kept, tokens, scanVars, sent, issued>>

\* The turn that does: the entity is replaced and its token put into the map.
Tokenize ==
    /\ stage = "scan" /\ Replace
    /\ ~Taken
    /\ LET e == [token |-> Candidate, value |-> Value, kind |-> Entity.kind]
       IN entries' = Put(entries, e) /\ tokens' = Put(tokens, e)
    /\ entityKey' = Key /\ level' = 1
    /\ mapFile' = Torn
    /\ stage' = "saveScan"
    /\ UNCHANGED <<config, recognise, ringKey, payload, todo, field, kept, sent, issued>>

\* sanitize_text returns.
FieldDone ==
    /\ stage = "scan" /\ Replaced
    /\ kept' = [kept EXCEPT ![field] =
                  {Slice(Output[i].from, Output[i].to) : i \in {j \in DOMAIN Output : Output[j].raw}}]
    /\ stage' = "fields"
    /\ UNCHANGED <<config, recognise, ringKey, mapFile, entityKey, entries, payload, todo,
                   field, level, tokens, scanVars, sent, issued>>

Within(value, text) ==
    \E i \in 0..Len(text) : i + Len(value) <= Len(text) /\ SubSeq(text, i + 1, i + Len(value)) = value

\* leak_check: no value that was replaced is left in a text it collects.
LeakFree(parts, toks) ==
    \A e \in toks : \A f \in DOMAIN parts \ DictKeys :
        \A text \in parts[f] : ~Within(e.value, text)

\* All fields are sanitized.  The leak check, then the packet and its schema;
\* either may refuse (whether the rest of the payload fits the schema is open).
Finish ==
    /\ stage = "fields" /\ todo = {}
    /\ \/ (config.sanitize => LeakFree(kept, tokens)) /\ Emit(kept, tokens)
       \/ /\ config.packet \/ (config.sanitize /\ ~LeakFree(kept, tokens))
          /\ UNCHANGED <<sent, issued>>
    /\ stage' = "idle"
    /\ Forget
    /\ Begin(0, {})
    /\ UNCHANGED <<config, recognise, ringKey, mapFile, entityKey, entries>>

----------------------------------------------------------------------------
Sending == NextField \/ FindEntities \/ TryLonger \/ Tokenize \/ FieldDone \/ Finish \/ Save
Next == BootProcess \/ RotateKeys \/ Crash \/ Send \/ Sending

Spec == Init /\ [][Next]_vars

\* A call of send() goes on while its process lives: it is straight-line code.
FairSpec == Spec /\ WF_vars(Sending)

\* detokenize_text on a token: its value, or the token again.
Detokenized(token, kind) ==
    IF kind \in Unread \/ ~\E e \in entries : e.token = token
    THEN token
    ELSE (CHOOSE e \in entries : e.token = token).value

----------------------------------------------------------------------------
(* Properties.                                                             *)

\* Whatever was sent can be read again: while a process is up, every token that
\* ever left stands in its map for the value it replaced, whatever crashes,
\* key rotations, digest collisions and later payloads came in between.
IssuedTokensResolve ==
    stage # "down" =>
        \A i \in issued : {e.value : e \in {d \in entries : d.token = i.token}} = {i.value}

\* Tokens are a function of what they stand for: the same entity under the same
\* key never gets a second token, in whichever order colliding values came.
OneTokenPerEntity ==
    \A i, j \in issued :
        i.key = j.key /\ i.value = j.value /\ i.kind = j.kind => i.token = j.token

\* Every send() ends, whatever the map holds: _token_for's loop finds a token.
SendEnds == (stage \notin {"idle", "down"}) ~> (stage \in {"idle", "down"})

\* "detokenization must restore originals"
\* (docs/autocapture_nx_blueprint_final.md:119): a reply that quotes a token of
\* a packet gives the user the value back.
DetokenizationRestores ==
    stage # "down" => \A i \in issued : Detokenized(i.token, i.kind) = i.value

\* "All outbound payloads must pass privacy.egress_sanitizer unless
\* privacy.egress.allow_raw_egress is true" (contracts/security.md:12): nothing
\* a recogniser matches is in the text of any field of a packet.
OutboundIsSanitized ==
    config.sanitize =>
        \A p \in sent : \A f \in DOMAIN p.parts : \A text \in p.parts[f] :
            text \in DOMAIN recognise => recognise[text] = {}

============================================================================
