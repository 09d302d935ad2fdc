---------------------------- MODULE Conversation ----------------------------
(***************************************************************************)
(* One conversation through the proxy, turn after turn: the route of its   *)
(* path, the fields of a request that are masked, the note added to the    *)
(* system prompt, and the fields of an answer that are restored            *)
(* (packages/proxy/src/router.ts, providers/anthropic.ts, openai.ts,       *)
(* codex.ts, policy/system-note.ts).                                       *)
(*                                                                         *)
(* A body is the sequence of its items, the system prompt first.  The text *)
(* of an item is the set of its marks: <<v, "raw">> for a value in clear,  *)
(* <<v, "token">> for its token, <<v, "blurred">> for one redacted in an   *)
(* image, and Note.  The detector finds every value, and tokens are the    *)
(* HMACs of their values.  Thinking blocks are in ThinkingReplay, and the  *)
(* pieces of a streamed answer in StreamTransformers.                      *)
(***************************************************************************)
EXTENDS Naturals, Sequences, SequencesExt

CONSTANTS
    PII,        \* values
    Note,       \* OPF_PLACEHOLDER_SYSTEM_NOTE
    Redactor,   \* the image redactor: "none" (the proxy's), "works" or "fails"
    MaxItems,   \* bound: items of a conversation
    MaxAsks     \* bound: requests that go upstream

ASSUME ConversationAssumption == Note \notin PII \X {"raw", "token", "blurred"}

VARIABLES
    path,     \* <<prefix, rest>> of the URL
    thread,   \* the items the client sends with its next request
    turn,      \* whose it is: "client", "upstream"
    known,     \* values in the vault of the session
    bodies,    \* history: the bodies upstream has got
    told,      \* history: [index in thread -> the item as upstream wrote it]
    late       \* history: the client has put a system message behind others

conversationVars == <<path, thread, turn, known, bodies, told, late>>

Paths ==
    {<<"anthropic", "/v1/messages">>, <<"anthropic", "/v1/messages/count_tokens">>,
     <<"anthropic", "/api/">>, <<"openai", "/v1/chat/completions">>,
     <<"openai", "/v1/responses">>, <<"openai", "/v1/embeddings">>,
     <<"codex", "/v1/responses">>, <<"codex", "/v1/models">>}

Item(field, marks) == [field |-> field, marks |-> marks]
Raw(values) == {<<v, "raw">> : v \in values}

-----------------------------------------------------------------------------
(* Routes                                                                  *)

Match(transform, prefix) ==
    [transform |-> transform, provider |-> prefix, upstream |-> prefix]

\* Mutant of ProviderRoute: a provider has one transform.
ProviderRouteOfOne(prefix, rest) ==
    CASE prefix = "anthropic" /\ rest # "/api/" -> Match("anthropic_messages", prefix)
      [] prefix = "openai" /\ rest = "/v1/chat/completions" -> Match("openai_chat", prefix)
      [] prefix = "codex" /\ rest = "/v1/responses" -> Match("responses", prefix)
      [] OTHER -> Match("passthrough", prefix)

\* Mutant of ProviderRoute: only the chat path of Anthropic is masked.
ProviderRouteExact(prefix, rest) ==
    CASE prefix = "anthropic" /\ rest = "/v1/messages" -> Match("anthropic_messages", prefix)
      [] prefix = "openai" /\ rest = "/v1/chat/completions" -> Match("openai_chat", prefix)
      [] prefix # "anthropic" /\ rest = "/v1/responses" -> Match("responses", prefix)
      [] OTHER -> Match("passthrough", prefix)

\* Everything of Anthropic but the account's namespace is masked, and of the others what
\* carries a conversation.
ProviderRoute(prefix, rest) ==
    CASE prefix = "anthropic" /\ rest # "/api/" -> Match("anthropic_messages", prefix)
      [] prefix = "openai" /\ rest = "/v1/chat/completions" -> Match("openai_chat", prefix)
      [] prefix # "anthropic" /\ rest = "/v1/responses" -> Match("responses", prefix)
      [] OTHER -> Match("passthrough", prefix)

\* The route of the URL; paths with none of the prefixes get a 404.
Route == ProviderRoute(path[1], path[2])

\* The language of the body, whatever the proxy makes of it.
Family ==
    CASE path[1] = "anthropic" -> "anthropic_messages"
      [] path[2] = "/v1/chat/completions" -> "openai_chat"
      [] OTHER -> "responses"

\* A request that carries a conversation, as opposed to an account's or an embedding's.
IsConversation == path[2] \notin {"/api/", "/v1/embeddings", "/v1/models"}

-----------------------------------------------------------------------------
(* Requests                                                                *)

\* mask() of one text: tokens and the note are left alone.
Masked(marks) == {IF m # Note /\ m[2] = "raw" THEN <<m[1], "token">> ELSE m : m \in marks}

\* maybeRedactAnthropicImage, maybeRedactOpenAIImage: an image whose redaction fails goes
\* as it is.
RedactedImage(item) ==
    IF Redactor # "works" THEN item
    ELSE Item("image", {<<m[1], "blurred">> : m \in item.marks})

\* Mutant of MaskAnthropic: only what the user has written is masked.
MaskAnthropicUser(item) ==
    IF item.field = "user" THEN Item("user", Masked(item.marks)) ELSE item

\* The system prompt, a string or blocks, and strings and text blocks of messages of any
\* role; blocks of tools are left alone.
MaskAnthropic(item) ==
    CASE item.field \in {"system", "system part", "user", "answer"} ->
             Item(item.field, Masked(item.marks))
      [] item.field = "image" -> RedactedImage(item)
      [] OTHER -> item

\* The same of a chat, where the result of a tool is the text of a message, and its call is not.
MaskChat(item) ==
    CASE item.field \in {"system", "system part", "user", "answer", "result"} ->
             Item(item.field, Masked(item.marks))
      [] item.field = "image" -> RedactedImage(item)
      [] OTHER -> item

\* maskToolArguments: the walk over the arguments of a call changes nothing.
MaskedCall(item) == item

\* The instructions and the user's input, a string or items; output_text is no input_text.
MaskResponses(item) ==
    CASE item.field \in {"system", "user"} -> Item(item.field, Masked(item.marks))
      [] item.field = "call" -> MaskedCall(item)
      [] OTHER -> item

\* The mask of an item under a transform.
MaskOf(transform, item) ==
    CASE transform = "anthropic_messages" -> MaskAnthropic(item)
      [] transform = "openai_chat" -> MaskChat(item)
      [] transform = "responses" -> MaskResponses(item)

\* The place of the last system item, 0 for none.
LastSystem(body) ==
    LET at == {i \in DOMAIN body : body[i].field \in {"system", "system part"}} IN
    IF at = {} THEN 0 ELSE CHOOSE i \in at : \A j \in at : j <= i

\* appendPlaceholderNote, to the system string at a place.
Appended(body, at) == [body EXCEPT ![at].marks = @ \cup {Note}]

\* A note of its own behind a place.
NoteBehind(body, at, field) == InsertAt(body, at + 1, Item(field, {Note}))

\* withPlaceholderNote of anthropic.ts: a block of its own behind the blocks of the system
\* prompt, unless one of them is the note; or the string gets it.
AnthropicNote(body) ==
    LET last == LastSystem(body) IN
    IF last # 0 /\ body[last].field = "system" THEN Appended(body, last)
    ELSE IF \E i \in 1 .. last : body[i].marks = {Note} THEN body
    ELSE NoteBehind(body, last, IF last = 0 THEN "system" ELSE "system part")

\* Mutant of ChatNote: the note is the last message.
ChatNoteAtEnd(body) == NoteBehind(body, Len(body), "system")

\* Mutant of ChatNote: nobody looks for a note that is there.
ChatNoteAgain(body) == NoteBehind(body, LastSystem(body), "system")

\* withPlaceholderNote of openai.ts: into the last system message, or behind it.
ChatNote(body) ==
    LET last == LastSystem(body) IN
    IF last # 0 /\ body[last].field = "system" THEN Appended(body, last)
    ELSE NoteBehind(body, last, "system")

\* The instructions get it, or become it.
ResponsesNote(body) ==
    IF LastSystem(body) = 0 THEN NoteBehind(body, 0, "system") ELSE Appended(body, 1)

\* The body that goes upstream.
Transformed(transform, body) ==
    LET masked == [i \in DOMAIN body |-> MaskOf(transform, body[i])] IN
    CASE transform = "anthropic_messages" -> AnthropicNote(masked)
      [] transform = "openai_chat" -> ChatNote(masked)
      [] transform = "responses" -> ResponsesNote(masked)

\* The values mask() finds in an item, and puts into the vault.
Found(transform, item) ==
    {m[1] : m \in {n \in item.marks \ {Note} :
                       n[2] = "raw" /\ <<n[1], "token">> \in MaskOf(transform, item).marks}}

-----------------------------------------------------------------------------
(* Answers                                                                 *)

\* restore() of one text: tokens the vault knows.
Restored(marks) ==
    {IF m[2] = "token" /\ m[1] \in known THEN <<m[1], "raw">> ELSE m : m \in marks}

RestoredIn(item, fields) ==
    IF item.field \in fields THEN Item(item.field, Restored(item.marks)) ELSE item

\* Text blocks, and every string in the input of a tool.
RestoreAnthropic(item) == RestoredIn(item, {"answer", "call"})

\* Mutant of RestoreChat: the arguments of calls are forgotten.
RestoreChatText(item) == RestoredIn(item, {"answer"})

\* The content, a string or parts, and the arguments of calls, whether they parse or not.
RestoreChat(item) == RestoredIn(item, {"answer", "call"})

\* Output texts, and the arguments of calls.
RestoreResponses(item) == RestoredIn(item, {"answer", "call"})

\* Mutant of Reader: the provider of the route picks who reads the answer.
ReaderOfProvider(match) ==
    CASE match.transform = "passthrough" -> "passthrough"
      [] match.provider = "anthropic" -> "anthropic_messages"
      [] match.provider = "openai" -> "openai_chat"
      [] match.provider = "codex" -> "responses"

\* selectStreamTransformer, and the branches of handleRequest: the transform picks who
\* reads the answer.
Reader(match) == match.transform

\* The answer the client gets; a reader of another language knows none of its fields.
Returned(item) ==
    IF Reader(Route) # Family THEN item
    ELSE CASE Family = "anthropic_messages" -> RestoreAnthropic(item)
           [] Family = "openai_chat" -> RestoreChat(item)
           [] Family = "responses" -> RestoreResponses(item)

-----------------------------------------------------------------------------
\* The first item of a conversation, if it has a system prompt: one that another host of
\* the note may have seen, as a string or as blocks.
Systems ==
    {<<>>} \cup {<<Item("system", Raw(PII))>>, <<Item("system", Raw(PII) \cup {Note})>>}
    \cup IF Family = "responses" THEN {}
         ELSE {<<Item("system part", Raw(PII))>>,
               <<Item("system part", Raw(PII)), Item("system part", {Note})>>}

ConversationInit ==
    /\ path \in Paths
    /\ thread \in Systems
    /\ turn = "client"
    /\ known = {} /\ bodies = <<>> /\ told = << >> /\ late = FALSE

\* The client adds something of its own: a text, an image, the result of a tool or, in a
\* chat, another system message.
ClientAdds(field, values) ==
    /\ turn = "client" /\ Len(thread) < MaxItems
    /\ field = "result" => thread # <<>> /\ thread[Len(thread)].field = "call"
    /\ field = "system" => Family = "openai_chat"
    /\ thread' = Append(thread, Item(field, Raw(values)))
    /\ late' = (late \/ field = "system")
    /\ UNCHANGED <<path, turn, known, bodies, told>>

\* The request goes upstream, masked.
Ask ==
    /\ turn = "client" /\ thread # <<>> /\ Len(bodies) < MaxAsks
    /\ Route.transform # "passthrough"
    /\ bodies' = Append(bodies, Transformed(Route.transform, thread))
    /\ known' = known \cup UNION {Found(Route.transform, thread[i]) : i \in DOMAIN thread}
    /\ turn' = "upstream"
    /\ UNCHANGED <<path, thread, told, late>>

\* On a path that is not masked it goes as it is.
PassThrough ==
    /\ turn = "client" /\ thread # <<>> /\ Len(bodies) < MaxAsks
    /\ Route.transform = "passthrough"
    /\ bodies' = Append(bodies, thread)
    /\ turn' = "upstream"
    /\ UNCHANGED <<path, thread, known, told, late>>

\* The detection of one of its texts fails closed: the vault has what was found before it.
AskFails ==
    /\ turn = "client" /\ thread # <<>> /\ Route.transform # "passthrough"
    /\ \E n \in DOMAIN thread :
           known' = known \cup UNION {Found(Route.transform, thread[i]) : i \in 1 .. n - 1}
    /\ UNCHANGED <<path, thread, turn, bodies, told, late>>

\* Upstream answers with what it has seen, and the client keeps what it gets.
UpstreamAnswers(field, marks) ==
    /\ turn = "upstream" /\ Len(thread) < MaxItems
    /\ field = "reasoning" => Family # "anthropic_messages"
    /\ thread' = Append(thread, Returned(Item(field, marks)))
    /\ told' = [i \in DOMAIN told \cup {Len(thread')} |->
                    IF i = Len(thread') THEN Item(field, marks) ELSE told[i]]
    /\ turn' = "client"
    /\ UNCHANGED <<path, known, bodies, late>>

\* Upstream refuses, which is relayed: the client may try again.
UpstreamRefuses ==
    /\ turn = "upstream" /\ turn' = "client"
    /\ UNCHANGED <<path, thread, known, bodies, told, late>>

\* The proxy is restarted, with the same token key and an empty vault.
ProxyRestarts ==
    /\ known # {} /\ known' = {} /\ turn' = "client"
    /\ UNCHANGED <<path, thread, bodies, told, late>>

\* The marks upstream has got in its last body.
Seen ==
    IF bodies = <<>> THEN {}
    ELSE LET last == bodies[Len(bodies)] IN
         (UNION {last[i].marks : i \in DOMAIN last}) \cap (PII \X {"raw", "token"})

ConversationNext ==
    \/ \E field \in {"user", "image", "result", "system"}, v \in PII : ClientAdds(field, {v})
    \/ Ask \/ PassThrough \/ AskFails
    \/ \E field \in {"answer", "call", "reasoning"} : \E mark \in Seen :
           UpstreamAnswers(field, {mark})
    \/ UpstreamRefuses \/ ProxyRestarts

ConversationSpec == ConversationInit /\ [][ConversationNext]_conversationVars

-----------------------------------------------------------------------------
\* The fields the proxy promises to mask (packages/proxy/README.md:70).
Promised ==
    CASE Family = "anthropic_messages" -> {"system", "system part", "user", "answer"}
      [] Family = "openai_chat" -> {"system", "system part", "user", "answer", "result"}
      [] Family = "responses" -> {"system", "user"}

\* No request with a conversation has a value in clear in a field that is to be masked,
\* also when it is one the proxy itself has restored in an earlier turn.
PromisedIsHidden ==
    IsConversation =>
        \A n \in DOMAIN bodies : \A i \in DOMAIN bodies[n] :
            bodies[n][i].field \in Promised => ~ \E v \in PII : <<v, "raw">> \in bodies[n][i].marks

\* The model is told about placeholders, and once, however many hosts tell it; a chat is
\* looked through in its last system message only, and only if that is a string.
NoteIsOnce ==
    IsConversation =>
        \A n \in DOMAIN bodies :
            LET notes == {i \in DOMAIN bodies[n] : Note \in bodies[n][i].marks} IN
            /\ notes # {}
            /\ \/ \A i, j \in notes : i = j
               \/ late
               \/ Family = "openai_chat" /\ bodies[n][1].field = "system part"

\* Each request begins with the one before, token by token, restarts or not, as long as
\* the client's own thread does and its system messages stay (openai.ts:36-38).
PrefixIsStable ==
    ~late => \A n \in 1 .. Len(bodies) - 1 : IsPrefix(bodies[n], bodies[n + 1])

\* The client has no token in a text or a call, and the model reads its own words again:
\* a text that was restored for the client is masked to what the model had written.
WordsComeBack ==
    IsConversation =>
        /\ \A i \in DOMAIN told :
               thread[i].field \in {"answer", "call"} =>
                   ~ \E v \in PII : <<v, "token">> \in thread[i].marks
        /\ turn = "upstream" =>
               \A i \in DOMAIN told :
                   told[i].field \in Promised /\ told[i].marks \cap Raw(PII) = {} =>
                       \E j \in DOMAIN bodies[Len(bodies)] : bodies[Len(bodies)][j] = told[i]

ConversationInv == PromisedIsHidden /\ NoteIsOnce /\ PrefixIsStable /\ WordsComeBack
=============================================================================
