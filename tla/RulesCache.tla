------------------------------ MODULE RulesCache ------------------------------
(***************************************************************************)
(* The files of the local rule cache: rules.enc, its plain-text fallback   *)
(* rules.json and the signature rules.sig, which saveRulesCache writes one *)
(* after the other and loadRulesCache reads at the next start of the agent *)
(* (agent/internal/agent/rules_sync.go).  The agent may stop between any   *)
(* two steps; os.WriteFile truncates the file before it writes it.         *)
(* A rule set is its version; its signature is the version it signs.       *)
(***************************************************************************)
EXTENDS Integers

CONSTANTS
  MaxVersion,      \* bound: versions the agent applies
  MaxCacheFaults,  \* bound: failing calls
  MaxStops         \* bound: stops of the agent

ASSUME CacheBounds == MaxVersion \in Nat /\ MaxCacheFaults \in Nat /\ MaxStops \in Nat

None == 0       \* the file does not exist
Torn == -1      \* the file is empty or cut short

VARIABLES
  enc, json, sig,   \* the three files
  pc,               \* the next step of the save under way
  content,          \* the rule set being saved, the newest one ever
  saved,            \* history: the last version whose save returned no error
  clean,            \* history: no call has failed in this save
  cacheFaults, stops

files     == <<enc, json, sig>>
cacheVars == <<enc, json, sig, pc, content, saved, clean, cacheFaults, stops>>

Contents == {None, Torn} \cup 1 .. MaxVersion

Steps == {"idle", "encrypt", "removeEnc", "encTrunc", "encWrite",
          "sigTrunc", "sigWrite", "removeJson",
          "plainRemoveEnc", "jsonTrunc", "jsonWrite", "plainSigTrunc", "plainSigWrite"}

CacheTypeOK ==
  /\ enc \in Contents /\ json \in Contents /\ sig \in Contents
  /\ pc \in Steps
  /\ content \in 0 .. MaxVersion
  /\ saved \in 0 .. content
  /\ clean \in BOOLEAN
  /\ cacheFaults \in 0 .. MaxCacheFaults
  /\ stops \in 0 .. MaxStops

CacheInit ==
  /\ enc = None /\ json = None /\ sig = None
  /\ pc = "idle"
  /\ content = 0
  /\ saved = 0
  /\ clean = TRUE
  /\ cacheFaults = 0
  /\ stops = 0

CacheFault == cacheFaults < MaxCacheFaults /\ cacheFaults' = cacheFaults + 1 /\ clean' = FALSE

Goto(step) == pc' = step /\ UNCHANGED <<content, saved, clean, cacheFaults, stops>>

\* saveRulesCache returns: with an error, or without.
GiveUp == pc' = "idle" /\ UNCHANGED <<content, saved, stops>>
Return == pc' = "idle" /\ saved' = content /\ UNCHANGED <<content, stops>>

(***************************************************************************)
(* The steps of saveRulesCache.                                            *)
(***************************************************************************)

\* Called after a successful apply; without the directory nothing is done.
Save ==
  /\ pc = "idle"
  /\ content' \in content + 1 .. MaxVersion
  /\ \/ pc' = "encrypt" /\ clean' = TRUE /\ UNCHANGED cacheFaults
     \/ pc' = "idle" /\ CacheFault
  /\ UNCHANGED <<files, saved, stops>>

\* The machine id or the agent id may be unreadable.
Encrypt ==
  /\ pc = "encrypt"
  /\ \/ Goto("removeEnc")
     \/ CacheFault /\ pc' = "plainRemoveEnc" /\ UNCHANGED <<content, saved, stops>>
  /\ UNCHANGED files

\* Both paths first remove the old rules.enc and ignore an error of it.
RemoveEnc ==
  /\ \/ pc = "removeEnc" /\ pc' = "encTrunc"
     \/ pc = "plainRemoveEnc" /\ pc' = "jsonTrunc"
  /\ \/ enc' = None /\ UNCHANGED <<cacheFaults, clean>>
     \/ UNCHANGED enc /\ CacheFault
  /\ UNCHANGED <<json, sig, content, saved, stops>>

\* os.WriteFile: opening truncates; a write that fails leaves the file torn.
OpenEnc ==
  /\ pc = "encTrunc"
  /\ \/ enc' = Torn /\ Goto("encWrite")
     \/ UNCHANGED enc /\ CacheFault /\ GiveUp
  /\ UNCHANGED <<json, sig>>

\* A defect: the signature of the encrypted file is not rewritten.
WriteEncOnly ==
  /\ pc = "encWrite"
  /\ \/ enc' = content /\ Goto("removeJson")
     \/ UNCHANGED enc /\ CacheFault /\ GiveUp
  /\ UNCHANGED <<json, sig>>

WriteEnc ==
  /\ pc = "encWrite"
  /\ \/ enc' = content /\ Goto("sigTrunc")
     \/ UNCHANGED enc /\ CacheFault /\ GiveUp
  /\ UNCHANGED <<json, sig>>

OpenJson ==
  /\ pc = "jsonTrunc"
  /\ \/ json' = Torn /\ Goto("jsonWrite")
     \/ UNCHANGED json /\ CacheFault /\ GiveUp
  /\ UNCHANGED <<enc, sig>>

WriteJson ==
  /\ pc = "jsonWrite"
  /\ \/ json' = content /\ Goto("plainSigTrunc")
     \/ UNCHANGED json /\ CacheFault /\ GiveUp
  /\ UNCHANGED <<enc, sig>>

OpenSig ==
  /\ pc \in {"sigTrunc", "plainSigTrunc"}
  /\ \/ sig' = Torn
        /\ Goto(IF pc = "sigTrunc" THEN "sigWrite" ELSE "plainSigWrite")
     \/ UNCHANGED sig /\ CacheFault /\ GiveUp
  /\ UNCHANGED <<enc, json>>

WriteSig ==
  /\ \/ pc = "sigWrite" /\ sig' = content /\ Goto("removeJson")
     \/ pc = "plainSigWrite" /\ sig' = content /\ Return /\ UNCHANGED <<cacheFaults, clean>>
     \/ pc \in {"sigWrite", "plainSigWrite"} /\ UNCHANGED sig /\ CacheFault /\ GiveUp
  /\ UNCHANGED <<enc, json>>

\* The plain text of earlier fallbacks goes last; an error is only logged.
RemoveJson ==
  /\ pc = "removeJson"
  /\ Return
  /\ \/ json' = None /\ UNCHANGED <<cacheFaults, clean>>
     \/ json # None /\ UNCHANGED json /\ CacheFault
  /\ UNCHANGED <<enc, sig>>

\* The agent stops and starts again: the memory is lost, the files stay.
Stop ==
  /\ stops < MaxStops
  /\ stops' = stops + 1
  /\ pc' = "idle"
  /\ clean' = FALSE
  /\ UNCHANGED <<files, content, saved, cacheFaults>>

CacheNext == \/ Save \/ Encrypt \/ RemoveEnc \/ OpenEnc \/ WriteEnc \/ OpenJson
             \/ WriteJson \/ OpenSig \/ WriteSig \/ RemoveJson \/ Stop

CacheSpec == CacheInit /\ [][CacheNext]_cacheVars

-----------------------------------------------------------------------------
(* loadRulesCache and the verification of what it returns: the encrypted   *)
(* file hides the plain one, also when it is damaged.                      *)

Chosen   == IF enc # None THEN enc ELSE json
\* A defect: the cached rule set is applied without its signature.
Unverified == IF Chosen \in 1 .. MaxVersion THEN Chosen ELSE 0
Accepted == IF Chosen \in 1 .. MaxVersion /\ sig = Chosen THEN Chosen ELSE 0

\* The detailed cache keeps the promise of the abstract one.
Promise == INSTANCE CachePromise WITH cached <- Accepted, offered <- content
KeepsPromise == Promise!Spec

\* A save that returned without error, and in which no call failed, is what
\* the next start loads (the order of the steps of saveRulesCache).
SavedIsLoadable ==
  pc = "idle" /\ clean /\ content > 0 /\ saved = content => Accepted = content

\* A start never brings back a rule set older than the last one whose save
\* succeeded, whichever files earlier failures left behind (the comment on
\* the stale rules.enc in saveRulesCache).
NeverStale == Accepted # 0 => Accepted >= saved

\* DESIGN.txt, on working without the server: the agent applies the rule set
\* it was sent last.  So once one was saved, a stop never leaves it with none.
SurvivesStop == saved > 0 => Accepted # 0
=============================================================================
