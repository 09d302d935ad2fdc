----------------------------- MODULE MCClients -----------------------------
(***************************************************************************)
(* Layers of the clients and of the streams they read, one of them from an *)
(* initial state on: two invocations of the installer, the hook of one     *)
(* prompt, the plugin of OpenCode as two modules that share a remover, and *)
(* the layers of MCStream.                                                 *)
(***************************************************************************)
EXTENDS Install, HookGate, PluginHooks, MCStream

CONSTANTS i1, i2

MCUrls == {Unset, Elsewhere, <<"remote", "anthropic">>, <<"local", "anthropic">>, <<"local", "">>}

-----------------------------------------------------------------------------
File(h, registered, url) ==
    [state |-> "text", entries |-> registered, urls |-> [p \in Providers(h) |-> url]]

\* What one who edits by hand, or installs in other versions, may have left.
Used(h) ==
    CASE h = "claude-code" -> <<<<"odd">>, <<>>, <<"theirs", "v2">>, <<"v1", "v2">>>>
      [] h = "codex" -> <<"theirs", "v2", "v2">>
      [] OTHER -> <<"restore", "theirs", "mask of old", "whole">>

MCContents(h) ==
    {Nothing(h), Torn(h), File(h, Used(h), Unset), File(h, Used(h), Elsewhere),
     File(h, Reverse(Used(h)), <<"local", "anthropic">>)}

\* One host has been used before, perhaps in the project too, perhaps by other means.
Situation(h, global, project) ==
    [files |-> [path \in Paths |-> IF path = <<h, "global">> THEN global
                                   ELSE IF path = <<h, "project">> THEN project ELSE Nothing(path[1])],
     stray |-> IF global.state = "absent" THEN {h} ELSE {}]

MCSituations ==
    {Situation(h, c, Nothing(h)) : c \in MCContents("codex"), h \in {"codex"}}
    \cup {Situation(h, c, Nothing(h)) : c \in MCContents("opencode"), h \in {"opencode"}}
    \cup {Situation(h, c, Nothing(h)) : c \in MCContents("claude-code"), h \in {"claude-code"}}
    \cup {Situation(h, Torn(h), File(h, Used(h), Unset)) : h \in Hosts}

Request(targets, scope, command, root) ==
    [targets |-> targets, scope |-> scope, command |-> command, root |-> root,
     proxyOnly |-> FALSE, dryRun |-> FALSE, resolved |-> TRUE, pluginRef |-> "whole"]

RequestOrder ==
    <<Request({"claude-code"}, "project", "v2", "none"),
      Request({"claude-code"}, "global", "odd", "local"),
      Request({"opencode"}, "project", "v1", "local"),
      Request({"codex"}, "project", "v2", "none"),
      Request({"claude-code", "opencode"}, "global", "v1", "local"),
      [Request({"codex", "opencode"}, "global", "odd", "none") EXCEPT !.resolved = FALSE, !.pluginRef = "path"],
      [Request({"opencode"}, "global", "v1", "none") EXCEPT !.resolved = FALSE],
      [Request({"opencode"}, "global", "v1", "local") EXCEPT !.proxyOnly = TRUE],
      [Request({"codex"}, "global", "v1", "local") EXCEPT !.proxyOnly = TRUE],
      [Request({"claude-code"}, "global", "v2", "local") EXCEPT !.dryRun = TRUE]>>

MCRequests == ToSet(RequestOrder)

ClientsInit ==
    /\ InstallInit /\ HookInit /\ Init
    /\ layer # "install" => files = [path \in Paths |-> Nothing(path[1])] /\ stray = {"codex"}
    /\ layer # "hook" => /\ env = [url |-> Unset, trust |-> FALSE, bypass |-> FALSE, auto_start |-> FALSE]
                         /\ prompt = {}
    /\ layer # "plugin" => boundary

MCInit ==
    \/ layer \in {"install", "hook", "plugin"} /\ ClientsInit /\ StreamsRest
    \/ MCStreamInit /\ ClientsInit

Place(i) == CHOOSE n \in DOMAIN RequestOrder : RequestOrder[n] = request'[i]

UsedHosts == {h \in Hosts : h \in stray \/ \E scope \in Scopes : origin[<<h, scope>>].state # "absent"}

\* Starting touches nothing that is shared, so both invocations do it first, in one order;
\* and as they are alike, the requests of the two may come in the order of the list.
\* Bound: one of the two at least serves the host that has been used before.
StartedFirst ==
    IF pc[i1] = "idle" THEN pc'[i1] # "idle"
    ELSE pc[i2] = "idle" =>
        /\ pc'[i2] # "idle" /\ Place(i1) <= Place(i2)
        /\ UsedHosts \cap (request[i1].targets \cup request'[i2].targets) # {}

\* Bound: one of the two may die.
OneDies == ~\A i \in Invocations : pc'[i] = "dead"

\* Bound: a conversation begins with the user, and without the boundary, where tokens are
\* not kept from the host, it has two parts.
UserBegins == store' # <<>> => store'[1].user /\ (~boundary => Len(store') <= 2)

clientVars == <<installVars, hookVars, vars>>
allStreamVars == <<bufferVars, streamVars>>

MCNext ==
    \/ /\ UNCHANGED <<layer, allStreamVars>>
       /\ \/ layer = "install" /\ InstallNext /\ StartedFirst /\ OneDies /\ UNCHANGED <<hookVars, vars>>
          \/ layer = "hook" /\ HookNext /\ UNCHANGED <<installVars, vars>>
          \/ layer = "plugin" /\ Next /\ UserBegins /\ UNCHANGED <<installVars, hookVars>>
    \/ MCStreamNext /\ UNCHANGED clientVars

MCSpec == MCInit /\ [][MCNext]_<<layer, clientVars, allStreamVars>>

-----------------------------------------------------------------------------
\* The hook that an installer registered trusts the URL it reported as enabled here.
InstalledIsTrusted ==
    \A i \in Invocations :
        LET o == outcome[i]["claude-code"] IN
        o.kind = "installed" /\ "anthropic" \in o.enabled /\ request[i].root = "local"
        => Configured([url |-> o.wrote.urls["anthropic"], trust |-> FALSE])

\* A prompt with personal data goes to no other machine unless the user says so, whatever
\* step of the hook fails (hook.ts), and the URL an installer sets up for the proxy is one
\* the hook lets it go to; and the plugin shows the model no value, and no token that
\* cannot be restored (hooks.ts).
GatesAreClosed ==
    HookTypeOK /\ GateIsClosed /\ InstalledIsTrusted /\ PluginInv
=============================================================================
