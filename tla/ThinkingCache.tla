--------------------------- MODULE ThinkingCache ---------------------------
(***************************************************************************)
(* The cache of signed thinking of a proxy session                         *)
(* (packages/proxy/src/stream/thinking-cache.ts): a Map from signatures to *)
(* texts in the order of their last use, bounded in entries and bytes.     *)
(***************************************************************************)
EXTENDS Naturals, Sequences, SequencesExt

CONSTANTS
    Signatures,
    Thinking,    \* texts
    Size(_),     \* their length in bytes
    MaxEntries,
    MaxBytes

ASSUME CacheAssumption ==
    /\ MaxEntries \in Nat \ {0} /\ MaxBytes \in Nat
    /\ \A text \in Thinking : Size(text) \in Nat

VARIABLES
    entries,  \* the Map's entries, the oldest first
    bytes     \* the running total of their sizes

cacheVars == <<entries, bytes>>

Entry == [signature: Signatures, thinking: Thinking]

Caches(signature) == \E i \in DOMAIN entries : entries[i].signature = signature

At(signature) == CHOOSE i \in DOMAIN entries : entries[i].signature = signature

Lookup(signature) == entries[At(signature)].thinking

\* What is left of the entries when a signature is forgotten, and of their bytes.
Without(signature) == IF Caches(signature) THEN RemoveAt(entries, At(signature)) ELSE entries

\* Mutant of BytesWithout: rewriting a signature counts it twice.
BytesWithoutForgetting(signature) == bytes

BytesWithout(signature) ==
    IF Caches(signature) THEN bytes - Size(Lookup(signature)) ELSE bytes

\* The bytes that entries take, each prefix of them and all.
SizesTo(es) ==
    LET upTo[k \in 0 .. Len(es)] == IF k = 0 THEN 0 ELSE upTo[k - 1] + Size(es[k].thinking)
    IN  upTo

Sizes(es) == SizesTo(es)[Len(es)]

CacheInit ==
    /\ entries = <<>>
    /\ bytes = 0

\* Mutant of Get: a read does not refresh.
GetStale(signature) ==
    /\ Caches(signature)
    /\ UNCHANGED cacheVars

\* A hit moves the entry to the recent end.
Get(signature) ==
    /\ Caches(signature)
    /\ entries' = Append(Without(signature), [signature |-> signature, thinking |-> Lookup(signature)])
    /\ UNCHANGED bytes

\* Mutant of Fits: one entry too many is left.
FitsOneMore(kept, left, incoming) == Len(kept) <= MaxEntries /\ left + incoming <= MaxBytes

\* Whether the entries that are left make room for the new one.
Fits(kept, left, incoming) == Len(kept) < MaxEntries /\ left + incoming <= MaxBytes

\* An oversized text is dropped before anything else; otherwise the oldest entries go
\* until the new one fits, or none is left.
Set(signature, text) ==
    IF Size(text) > MaxBytes THEN UNCHANGED cacheVars
    ELSE LET kept(k) == SubSeq(Without(signature), k + 1, Len(Without(signature)))
             left(k) == BytesWithout(signature) - Sizes(SubSeq(Without(signature), 1, k))
             fits(k) == k = Len(Without(signature)) \/ Fits(kept(k), left(k), Size(text))
         IN  \E k \in 0 .. Len(Without(signature)) :
                 /\ fits(k) /\ \A j \in 0 .. (k - 1) : ~fits(j)
                 /\ entries' = Append(kept(k), [signature |-> signature, thinking |-> text])
                 /\ bytes' = left(k) + Size(text)

Clear ==
    /\ entries' = <<>>
    /\ bytes' = 0

CacheNext ==
    \/ \E signature \in Signatures : Get(signature)
    \/ \E signature \in Signatures, text \in Thinking : Set(signature, text)
    \/ Clear

CacheSpec == CacheInit /\ [][CacheNext]_cacheVars

-----------------------------------------------------------------------------
\* A signature has one entry.
CacheTypeOK ==
    /\ Range(entries) \subseteq Entry
    /\ bytes \in Nat
    /\ \A i, j \in DOMAIN entries : entries[i].signature = entries[j].signature => i = j

\* The caps hold at every moment, and the running total is what the entries take.
CacheIsBounded ==
    /\ Len(entries) <= MaxEntries
    /\ bytes <= MaxBytes
    /\ bytes = Sizes(entries)

\* Entries are evicted for want of room only: the youngest one that went would not
\* fit with those that stay.
EvictsForRoomOnly ==
    [][LET gone == {i \in DOMAIN entries :
                       \A j \in DOMAIN entries' : entries'[j].signature # entries[i].signature}
       IN  entries' # <<>> =>
               \A i \in gone :
                   \/ \E j \in gone : j > i
                   \/ Len(entries') = MaxEntries
                   \/ Sizes(entries') + Size(entries[i].thinking) > MaxBytes]_cacheVars
=============================================================================
