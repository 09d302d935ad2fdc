------------------------------ MODULE Remover ------------------------------
(***************************************************************************)
(* One PIIRemover with its vault: mask, restore and dispose                *)
(* (packages/core/src/pii-remover.ts, vault/manager.ts, policy/failure.ts, *)
(* restorer/repair.ts), and the restart of the process around it.          *)
(*                                                                         *)
(* A text is the sequence of the PII surfaces in it; what stands between   *)
(* them plays no part.  A surface has a category and a canonical form, and *)
(* the token of a surface is its category with the hash HMAC(key, category,*)
(* canonical form), whose first characters are the epoch of the key.       *)
(* Surfaces that differ in white space only share their canonical form and *)
(* their token.                                                            *)
(*                                                                         *)
(* mask() is suspended while the detector works, so it is two actions, with*)
(* everything else allowed in between.                                     *)
(***************************************************************************)
EXTENDS Naturals, FiniteSets, FiniteSetsExt, Sequences

CONSTANTS
    Calls,         \* mask() calls that can be in progress at the same time
    Texts,         \* texts a host may pass to mask(): sequences of surfaces
    Surfaces,      \* PII as it is spelt in a text
    CatOf,         \* [Surfaces -> Categories], what a detector reports
    CanonOf,       \* [Surfaces -> canonical forms]
    Categories,
    Secret,        \* the category of the secret scanner
    RegexSees,     \* categories the local regex fallback can detect
    OverlapOf,     \* [Surfaces -> the surfaces a detector may report that overlap it]
    Keys,          \* token keys
    KeyEpoch,      \* [Keys -> the epoch each key stamps on its tokens]
    Hashes,        \* token hashes, minted or mutated
    HashOf(_, _),  \* HashOf(key, surface)
    EpochOf(_),    \* the leading characters of a hash
    Near(_, _),    \* isWithinOneEdit
    MaxEntries,    \* VaultManagerOptions.maxEntries
    NoEntry,
    MaxRestarts    \* bound: restarts of the process

ASSUME SurfacesAssumption ==
    /\ NoEntry \notin Surfaces
    /\ CatOf \in [Surfaces -> Categories]
    /\ CanonOf \in [Surfaces -> {CanonOf[s] : s \in Surfaces}]
    /\ OverlapOf \in [Surfaces -> SUBSET Surfaces]
    /\ Texts \subseteq Seq(Surfaces)

\* A hash is a function of the key, the category and the canonical form, and
\* starts with the epoch of the key.
ASSUME HashAssumption ==
    \A k \in Keys, s \in Surfaces :
        /\ HashOf(k, s) \in Hashes
        /\ EpochOf(HashOf(k, s)) = KeyEpoch[k]
        /\ \A u \in Surfaces : CatOf[s] = CatOf[u] /\ CanonOf[s] = CanonOf[u]
                               => HashOf(k, s) = HashOf(k, u)

ASSUME LimitAssumption == MaxEntries \in Nat

ASSUME NearAssumption == \A h \in Hashes : Near(h, h)

VARIABLES
    policy,    \* config.failure_policy
    scans,     \* config.detection.enabled_categories includes "secret"
    bypass,    \* isBypassActive: the environment variable of the process
    key,       \* VaultManager.tokenKey
    entries,   \* [Token -> the surface the vault holds for it, or NoEntry]
    disposed,  \* PIIRemover.disposed
    calls,     \* the mask() calls in progress
    answers,   \* what mask() of this remover has returned
    restarts

vars == <<policy, scans, bypass, key, entries, disposed, calls, answers, restarts>>

Token == [cat: Categories, hash: Hashes]

TokenOf(k, s) == [cat |-> CatOf[s], hash |-> HashOf(k, s)]

\* Two surfaces that are the same value to the vault.
SameValue(s, u) == CatOf[s] = CatOf[u] /\ CanonOf[s] = CanonOf[u]

Live == {t \in Token : entries[t] # NoEntry}

NoEntries == [t \in Token |-> NoEntry]

Idle == [pc |-> "idle", text |-> <<>>]

Init ==
    /\ policy \in {"closed", "hybrid", "open"}
    /\ scans \in BOOLEAN
    /\ bypass \in BOOLEAN
    /\ key \in Keys
    /\ entries = NoEntries
    /\ disposed = FALSE
    /\ calls = [c \in Calls |-> Idle]
    /\ answers = {}
    /\ restarts = 0

-----------------------------------------------------------------------------
(* VaultManager.assign                                                     *)

\* What is found in a text: at some positions the surface that is there, or one that
\* overlaps it.
Readings(text) == UNION {[S -> Surfaces] : S \in SUBSET DOMAIN text}

\* Mutant of Clash: no collision check.
ClashUnseen(found, i) == FALSE

\* The i-th surface hashes to a token that is taken by another value, from the
\* vault or from earlier in the same text.
Clash(found, i) ==
    LET t == TokenOf(key, found[i]) IN
    \/ entries[t] # NoEntry /\ CanonOf[entries[t]] # CanonOf[found[i]]
    \/ \E j \in DOMAIN found : /\ j < i
                               /\ TokenOf(key, found[j]) = t
                               /\ CanonOf[found[j]] # CanonOf[found[i]]

\* The detections assign() processes before it throws, all if it does not.
Processed(found) ==
    {i \in DOMAIN found : \A j \in DOMAIN found : j <= i => ~Clash(found, j)}

\* The detections that claim token t.
Claims(found, S, t) == {i \in S : TokenOf(key, found[i]) = t}

\* The vault after these detections: a token the vault already has keeps its
\* entry, a new one gets the first surface that claims it.
Recorded(found, S) ==
    [t \in Token |-> IF entries[t] = NoEntry /\ Claims(found, S, t) # {}
                     THEN found[Min(Claims(found, S, t))]
                     ELSE entries[t]]

Size(vault) == Cardinality({t \in Token : vault[t] # NoEntry})

Overfull(vault) == Size(vault) > MaxEntries

-----------------------------------------------------------------------------
(* PIIRemover.mask                                                         *)

\* bypass and failure_policy "open": the text is returned as it is.
Passthrough(c, text) ==
    /\ calls[c].pc = "idle"
    /\ ~disposed
    /\ bypass \/ policy = "open"
    /\ answers' = answers \cup {[text |-> text, hidden |-> <<>>, disputed |-> {}, via |-> "passthrough"]}
    /\ UNCHANGED <<policy, scans, bypass, key, entries, disposed, calls, restarts>>

BeginMask(c, text) ==
    /\ calls[c].pc = "idle"
    /\ ~disposed
    /\ ~bypass /\ policy # "open"
    /\ calls' = [calls EXCEPT ![c] = [pc |-> "detecting", text |-> text]]
    /\ UNCHANGED <<policy, scans, bypass, key, entries, disposed, answers, restarts>>

\* The detector failed.  "hybrid" turns to the regex fallback, "closed" throws
\* FailClosedError.
DetectorFails(c) ==
    /\ calls[c].pc = "detecting"
    /\ calls' = [calls EXCEPT ![c] = IF policy = "hybrid" THEN [pc |-> "fallback", text |-> @.text]
                                     ELSE Idle]
    /\ UNCHANGED <<policy, scans, bypass, key, entries, disposed, answers, restarts>>

FallbackFails(c) ==
    /\ calls[c].pc = "fallback"
    /\ calls' = [calls EXCEPT ![c] = Idle]
    /\ UNCHANGED <<policy, scans, bypass, key, entries, disposed, answers, restarts>>

\* What a detector can report of a text: the primary one anything, the regex
\* fallback only its categories.
Reports(c) ==
    LET text == calls[c].text IN
    {report \in Readings(text) :
        \A i \in DOMAIN report :
            /\ report[i] \in {text[i]} \cup OverlapOf[text[i]]
            /\ calls[c].pc = "fallback" => CatOf[report[i]] \in RegexSees}

\* What the secret scanner finds, if its category is enabled.
Secrets(text) == {i \in DOMAIN text : scans /\ CatOf[text[i]] = Secret}

\* The secrets that a detection of something else overlaps.
Disputed(text, report) == {i \in Secrets(text) \cap DOMAIN report : report[i] # text[i]}

\* Mutant of WithSecrets: only the primary detector's report is completed.
WithSecretsPrimary(c, report) ==
    LET text == calls[c].text
        both == DOMAIN report \cup Secrets(text)
    IN  IF calls[c].pc = "fallback" THEN {report}
        ELSE {m \in Readings(text) :
                 /\ DOMAIN m \subseteq both /\ both \ DOMAIN m \subseteq Disputed(text, report)
                 /\ \A i \in DOMAIN m : \/ i \in Secrets(text) /\ m[i] = text[i]
                                        \/ i \in DOMAIN report /\ m[i] = report[i]}

\* The secrets are merged into the report of whichever detector answered.  Of a secret and
\* a detection that overlaps it the merge keeps one, or neither if that one is lost to a
\* third: which, is for MergeLoop to say.
WithSecrets(c, report) ==
    LET text == calls[c].text
        both == DOMAIN report \cup Secrets(text)
    IN  {m \in Readings(text) :
            /\ DOMAIN m \subseteq both /\ both \ DOMAIN m \subseteq Disputed(text, report)
            /\ \A i \in DOMAIN m : \/ i \in Secrets(text) /\ m[i] = text[i]
                                   \/ i \in DOMAIN report /\ m[i] = report[i]}

\* A detector answered: the vault records the surfaces and the text is returned
\* with their tokens.  Nothing looks at disposed again; assign() makes a vault
\* where there is none.  When assign() throws, what it recorded stays.
EndMask(c) ==
    LET text == calls[c].text IN
    /\ calls[c].pc \in {"detecting", "fallback"}
    /\ \E report \in Reports(c) : \E found \in WithSecrets(c, report) :
        LET done == Processed(found)
        IN  /\ entries' = Recorded(found, done)
            /\ IF done = DOMAIN found /\ (DOMAIN found = {} \/ ~Overfull(entries'))
               THEN answers' = answers \cup
                        {[text |-> text, hidden |-> found, disputed |-> Disputed(text, report),
                          via |-> "detector"]}
               ELSE answers' = answers
    /\ calls' = [calls EXCEPT ![c] = Idle]
    /\ UNCHANGED <<policy, scans, bypass, key, disposed, restarts>>

-----------------------------------------------------------------------------
(* PIIRemover.restore, for one token of the text it is given               *)

Candidates(o) == {t \in Live : t.cat = o.cat /\ Near(t.hash, o.hash)}

\* Mutant of Resolve: takes the first candidate.
ResolveAnyNear(o) ==
    IF entries[o] # NoEntry THEN [kind |-> "exact", surface |-> entries[o]]
    ELSE IF Candidates(o) # {}
    THEN [kind |-> "repaired", surface |-> entries[CHOOSE t \in Candidates(o) : TRUE]]
    ELSE [kind |-> IF EpochOf(o.hash) = KeyEpoch[key] THEN "expired" ELSE "foreign",
          surface |-> NoEntry]

\* Mutant of Resolve: repairs on the hash alone.
ResolveHashOnly(o) ==
    LET near == {t \in Live : Near(t.hash, o.hash)} IN
    IF entries[o] # NoEntry THEN [kind |-> "exact", surface |-> entries[o]]
    ELSE IF Cardinality(near) = 1
    THEN [kind |-> "repaired", surface |-> entries[CHOOSE t \in near : TRUE]]
    ELSE [kind |-> IF near # {} THEN "ambiguous"
                   ELSE IF EpochOf(o.hash) = KeyEpoch[key] THEN "expired" ELSE "foreign",
          surface |-> NoEntry]

\* Mutant of Resolve: calls every miss of an empty vault foreign.
ResolveNoEpoch(o) ==
    IF entries[o] # NoEntry THEN [kind |-> "exact", surface |-> entries[o]]
    ELSE IF Cardinality(Candidates(o)) = 1
    THEN [kind |-> "repaired", surface |-> entries[CHOOSE t \in Candidates(o) : TRUE]]
    ELSE [kind |-> IF Candidates(o) # {} THEN "ambiguous"
                   ELSE IF Live # {} /\ EpochOf(o.hash) = KeyEpoch[key]
                   THEN "expired" ELSE "foreign",
          surface |-> NoEntry]

\* What an observed token becomes: the value of its own entry; the value of the
\* only entry of its category within one edit; or nothing, with the cause.
Resolve(o) ==
    IF entries[o] # NoEntry THEN [kind |-> "exact", surface |-> entries[o]]
    ELSE IF \E t \in Candidates(o) : Candidates(o) = {t}
    THEN [kind |-> "repaired", surface |-> entries[CHOOSE t \in Candidates(o) : TRUE]]
    ELSE [kind |-> IF Candidates(o) # {} THEN "ambiguous"
                   ELSE IF EpochOf(o.hash) = KeyEpoch[key] THEN "expired" ELSE "foreign",
          surface |-> NoEntry]

-----------------------------------------------------------------------------
\* dispose() drops the vault; calls that await the detector are not told.
Dispose ==
    /\ ~disposed
    /\ disposed' = TRUE
    /\ entries' = NoEntries
    /\ UNCHANGED <<policy, scans, bypass, key, calls, answers, restarts>>

\* Mutant of Restart: the vault outlives the process, under whatever key.
RestartKeepsVault ==
    /\ restarts < MaxRestarts
    /\ restarts' = restarts + 1
    /\ key' \in Keys
    /\ bypass' \in BOOLEAN
    /\ disposed' = FALSE
    /\ calls' = [c \in Calls |-> Idle]
    /\ answers' = {}
    /\ UNCHANGED <<policy, scans, entries>>

\* The process ends and a new one starts with an empty vault, under the key of
\* the key file or, when that was lost, under another one.
Restart ==
    /\ restarts < MaxRestarts
    /\ restarts' = restarts + 1
    /\ key' \in Keys
    /\ bypass' \in BOOLEAN
    /\ entries' = NoEntries
    /\ disposed' = FALSE
    /\ calls' = [c \in Calls |-> Idle]
    /\ answers' = {}
    /\ UNCHANGED <<policy, scans>>

CallStep(c) == DetectorFails(c) \/ FallbackFails(c) \/ EndMask(c)

Next ==
    \/ \E c \in Calls, text \in Texts : Passthrough(c, text) \/ BeginMask(c, text)
    \/ \E c \in Calls : CallStep(c)
    \/ Dispose
    \/ Restart

Spec == Init /\ [][Next]_vars

-----------------------------------------------------------------------------
(* Properties                                                              *)

TypeOK ==
    /\ policy \in {"closed", "hybrid", "open"}
    /\ scans \in BOOLEAN
    /\ bypass \in BOOLEAN
    /\ key \in Keys
    /\ entries \in [Token -> Surfaces \cup {NoEntry}]
    /\ disposed \in BOOLEAN
    /\ calls \in [Calls -> [pc: {"idle", "detecting", "fallback"}, text: Seq(Surfaces)]]
    /\ \A a \in answers :
        /\ a.text \in Seq(Surfaces)
        /\ DOMAIN a.hidden \subseteq DOMAIN a.text
        /\ a.hidden \in [DOMAIN a.hidden -> Surfaces]
        /\ a.via \in {"detector", "passthrough"}
    /\ restarts \in Nat

\* Every entry sits under the token of its own surface.
EntriesUnderOwnToken ==
    \A t \in Token : entries[t] # NoEntry => t = TokenOf(key, entries[t])

\* The round trip: as long as its vault lives, a masked text restores to the
\* values it had, whatever was masked, in whatever order, before or since.
\* (To the values, not to the spelling: see SameValue.)
RoundTrips ==
    ~disposed =>
        \A a \in answers : \A i \in DOMAIN a.hidden :
            LET r == Resolve(TokenOf(key, a.hidden[i])) IN
            r.kind = "exact" /\ SameValue(r.surface, a.hidden[i])

RemoverInv == TypeOK /\ EntriesUnderOwnToken /\ RoundTrips

\* No mask() call changes what an earlier one recorded: a token keeps its value
\* until the vault is dropped as a whole.
EntriesAreStable ==
    [][\A t \in Token : entries[t] # NoEntry => entries'[t] = entries[t] \/ entries' = NoEntries]_vars

\* No other value of its category hashes to within one edit of this one's, under
\* any key: what 16 characters of HMAC make overwhelmingly likely.
Apart(s) ==
    \A k, l \in Keys, u \in Surfaces :
        CatOf[s] = CatOf[u] /\ Near(HashOf(l, u), HashOf(k, s)) => CanonOf[s] = CanonOf[u]

\* Invariant I1 of the quality plan: a token that some process ever minted, also
\* under another key or in a vault that is gone, is restored to its own value
\* or not at all, however other values collide.
OwnValueOnly ==
    \A k \in Keys, s \in Surfaces :
        LET r == Resolve(TokenOf(k, s)) IN
        r.surface # NoEntry /\ Apart(s) => SameValue(r.surface, s)

\* A token of this vault that the model damaged by one edit, and that is no
\* other token of this vault, is restored to its own value or withheld because
\* another entry is as near.
DamagedIsOwnOrWithheld ==
    \A t \in Live, o \in Token :
        t.cat = o.cat /\ Near(t.hash, o.hash) /\ o \notin Live
        => Resolve(o).kind = "ambiguous" \/ Resolve(o).surface = entries[t]

\* After a restart the tokens of an older process under this key are called
\* expired, never foreign, which would count them as invented by the model; and
\* those of another key are never called expired.
MissIsClassified ==
    \A k \in Keys, s \in Surfaces :
        LET r == Resolve(TokenOf(k, s)) IN
        /\ k = key => r.kind # "foreign"
        /\ KeyEpoch[k] # KeyEpoch[key] => r.kind # "expired"

\* While its category is enabled, a detector that fails or misses never exposes a secret:
\* the secret scanner completes the fallback's report too.  Only a text that the user let
\* through unmasked shows one, or one that a detection of something else overlaps, to
\* which the secret may be lost.
SecretsAreHidden ==
    scans =>
        \A a \in answers : \A i \in DOMAIN a.text \ a.disputed :
            a.via # "passthrough" /\ CatOf[a.text[i]] = Secret
            => i \in DOMAIN a.hidden /\ a.hidden[i] = a.text[i]
=============================================================================
