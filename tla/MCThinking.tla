----------------------------- MODULE MCThinking ----------------------------
(***************************************************************************)
(* ThinkingReplay with a cache that holds two of three blocks.  A text is  *)
(* a kind and a length; restoring turns a masked text into a clear one.    *)
(* From some initial states on the cache is on its own: it is read, and    *)
(* written with any text under any signature, also again or oversized.     *)
(***************************************************************************)
EXTENDS ThinkingReplay

CONSTANTS s1, s2, s3

VARIABLES
    alone,
    used    \* history: the signatures read or written since the last Clear

MCThinking ==
    {[kind |-> "empty", length |-> 0], [kind |-> "plain", length |-> 5]}
    \cup [kind: {"plain", "masked"}, length: 1 .. 3]

MCSize(text) == text.length

MCEmpty == [kind |-> "empty", length |-> 0]

MCShown(text) == IF text.kind = "masked" THEN [kind |-> "clear", length |-> 2] ELSE text

\* Two blocks of masked thinking, the longer one called s2, and one of any kind.
MCContents ==
    {f \in [Signatures -> MCThinking] :
        /\ f[s1].kind = "masked" /\ f[s2].kind = "masked"
        /\ f[s1].length <= f[s2].length}

\* The history without an earlier use of a signature.
UsedBut(signature) ==
    IF \E i \in DOMAIN used : used[i] = signature
    THEN RemoveAt(used, CHOOSE i \in DOMAIN used : used[i] = signature) ELSE used

\* The use of a signature that is in the cache afterwards.
Uses(signature) ==
    used' = IF \E i \in DOMAIN entries' : entries'[i].signature = signature
            THEN Append(UsedBut(signature), signature) ELSE used

ThinkingInit == alone \in BOOLEAN /\ Init /\ used = <<>> /\ (alone => signed = CHOOSE f \in Contents : TRUE)

Session ==
    \/ \E signature \in Signatures : Answer(signature) /\ Uses(signature)
    \/ \E signature \in Signatures : Cut(signature) /\ UNCHANGED used
    \/ \E block \in history :
           /\ Replay(block)
           /\ IF block.thinking = Empty THEN UNCHANGED used ELSE Uses(block.signature)
    \/ Restart /\ used' = <<>>

CacheAlone ==
    /\ \/ \E signature \in Signatures : Get(signature) /\ Uses(signature)
       \/ \E signature \in Signatures, text \in Thinking :
              /\ Set(signature, text)
              /\ IF Size(text) > MaxBytes THEN UNCHANGED used ELSE Uses(signature)
       \/ Clear /\ used' = <<>>
    /\ UNCHANGED <<signed, answered, history, wire>>

ThinkingNext ==
    /\ UNCHANGED alone
    /\ IF alone THEN CacheAlone ELSE Session

thinkingVars == <<vars, alone, used>>

ThinkingSpec == ThinkingInit /\ [][ThinkingNext]_thinkingVars

\* The cache holds the entries that were used last, in the order of their use, within
\* both caps: a block that is replayed every turn does not age out of a long conversation.
\* And none of them is evicted but for want of room.
LastUsedAreKept ==
    /\ [](/\ TypeOK /\ CacheIsBounded
          /\ [i \in DOMAIN entries |-> entries[i].signature]
                 = SubSeq(used, Len(used) - Len(entries) + 1, Len(used)))
    /\ EvictsForRoomOnly
=============================================================================
