------------------------------ MODULE Install ------------------------------
(***************************************************************************)
(* The installer (packages/cli/src/commands): it registers pii-remover in  *)
(* the settings of its hosts.  Claude Code and Codex get a hook command,   *)
(* OpenCode a plugin before and one after all others; each also the URL of *)
(* the proxy.  One invocation serves several hosts in a fixed order, and a *)
(* host that fails does not stop the others.  An installer reads a file,   *)
(* patches what it read and writes it back, without a lock, and may die at *)
(* any moment, with the file cut off.                                      *)
(***************************************************************************)
EXTENDS Naturals, Sequences, SequencesExt

CONSTANTS
    Invocations,    \* runs of `pii-remover install`
    Commands,       \* hook commands, each of another version or path of ours
    Owned,          \* those that name pii-remover, whoever wrote them
    Foreign,        \* hooks and plugins that are not ours, whatever an installer writes
    InstallRequests,       \* the flags an invocation may get
    Situations      \* what the files may hold at first, and which hosts have strays

Order == <<"claude-code", "opencode", "codex">>
Hosts == ToSet(Order)
Scopes == {"global", "project"}
Paths == Hosts \X Scopes
Providers(h) == CASE h = "opencode" -> {"anthropic", "openai"}
                  [] h = "codex" -> {"codex"}
                  [] OTHER -> {"anthropic"}

\* The entries of OpenCode that are ours: split, whole, and of any place or version; and
\* what --command-path puts there, which no later installer knows as its own.
OurPlugins == {"mask", "restore", "mask of old", "restore of old", "whole"}
PluginRefs == {"whole", "path"}

Entries(h) == CASE h = "claude-code" -> Seq(Commands \cup Foreign)
                [] h = "opencode" -> OurPlugins \cup PluginRefs \cup Foreign
                [] OTHER -> Commands \cup Foreign

\* A URL is a root and the route of a provider under it.
Roots == {"local", "remote"}
Addresses == ({"unset", "elsewhere"} \cup Roots) \X {"", "anthropic", "openai", "codex"}

Contents(h) == [state : {"absent", "torn", "text"}, entries : Seq(Entries(h)),
                urls : [Providers(h) -> Addresses]]

Flags == [targets : SUBSET Hosts, scope : Scopes, command : Commands, root : {"none"} \cup Roots,
          proxyOnly : BOOLEAN, dryRun : BOOLEAN, resolved : BOOLEAN, pluginRef : PluginRefs]

ASSUME InstallAssumption ==
    /\ Owned \subseteq Commands
    /\ Foreign \cap (Commands \cup OurPlugins \cup PluginRefs) = {}
    /\ \A r \in InstallRequests : r \in Flags
    /\ \A s \in Situations : DOMAIN s.files = Paths /\ \A path \in Paths : s.files[path] \in Contents(path[1])

VARIABLES
    files,      \* <<host, scope>> -> its settings
    origin,     \* history: the files at first
    stray,      \* the hosts with a registration of ours in a file no installer writes
    request,
    pc,         \* "read", "write", "fill", "config", "scan", "done" or "dead"
    todo,       \* the hosts an invocation has still to serve
    before,     \* what it has read of its present host
    outcome     \* invocation -> host -> how it went

installVars == <<files, origin, stray, request, pc, todo, before, outcome>>

\* The URL of a provider: none, somebody else's, or a route under a root of the proxy.
Unset == <<"unset", "">>
Elsewhere == <<"elsewhere", "">>

\* A file that is absent is read as an empty one; one that was cut off in the middle is
\* no JSON any more, but still a TOML file.
Nothing(h) == [state |-> "absent", entries |-> <<>>, urls |-> [p \in Providers(h) |-> Unset]]
Torn(h) == [Nothing(h) EXCEPT !.state = "torn"]
\* Mutant of Readable: what cannot be parsed counts as empty.
ReadableAlways(h, content) == TRUE

Readable(h, content) == content.state # "torn" \/ h = "codex"

-----------------------------------------------------------------------------
(* What a patch makes of what was read.                                     *)

\* A command is recognised as ours by its words, or because it is the very one we write.
Recognised(existing, command) == existing = command \/ existing \in Owned

\* What a sequence holds at the indices in K.
Picked(s, K) ==
    LET prefix[n \in 0 .. Len(s)] ==
            IF n = 0 THEN <<>>
            ELSE IF n \in K THEN Append(prefix[n - 1], s[n]) ELSE prefix[n - 1]
    IN  prefix[Len(s)]

Where(s, S) == {i \in DOMAIN s : s[i] \in S}

\* Mutant of IsFirst: each group has a first one.
IsFirstOfGroup(groups, g, i, command) ==
    \A j \in DOMAIN groups[g] : Recognised(groups[g][j], command) => i <= j

\* No hook of ours stands before this one, in its group or in another.
IsFirst(groups, g, i, command) ==
    \A f \in 1 .. g : \A j \in DOMAIN groups[f] :
        Recognised(groups[f][j], command) => f = g /\ i <= j

\* The first of ours becomes the command, further ones are dropped.
Entry(existing, command) == IF Recognised(existing, command) THEN command ELSE existing

Group(groups, g, command) ==
    Picked([i \in DOMAIN groups[g] |-> Entry(groups[g][i], command)],
           {i \in DOMAIN groups[g] :
               Recognised(groups[g][i], command) => IsFirst(groups, g, i, command)})

\* A group that only held duplicates goes; one that was empty stays.
EnsureHook(groups, command) ==
    LET rewritten == [g \in DOMAIN groups |-> Group(groups, g, command)]
    IN  IF \E g \in DOMAIN groups : \E i \in DOMAIN groups[g] : Recognised(groups[g][i], command)
        THEN Picked(rewritten, {g \in DOMAIN groups : groups[g] = <<>> \/ rewritten[g] # <<>>})
        ELSE Append(groups, <<command>>)

\* Codex has no groups.  Its TOML is edited line by line: one command is replaced, and
\* duplicates stay, since a block cannot be removed without a parser.
PatchHookBlocks(blocks, command) ==
    LET owned == {i \in DOMAIN blocks : Recognised(blocks[i], command)}
        primary == CHOOSE i \in owned : \A j \in owned : i <= j
    IN  IF owned = {} THEN Append(blocks, command)
        ELSE IF \E i \in owned : blocks[i] = command THEN blocks
        ELSE [blocks EXCEPT ![primary] = command]

\* Mutant of PatchPlugins: entries of another place or version are not known as ours.
PatchPluginsExact(plugins, r) ==
    LET others == Picked(plugins, DOMAIN plugins \ Where(plugins, {"mask", "restore", "whole"})) IN
    IF r.proxyOnly THEN others
    ELSE IF r.resolved THEN <<"mask">> \o others \o <<"restore">>
    ELSE <<r.pluginRef>> \o others

\* Mask first, restore last.  Where the plugin is not installed yet a single entry has
\* to do: the package, or what --command-path said.
PatchPlugins(plugins, r) ==
    LET others == Picked(plugins, DOMAIN plugins \ Where(plugins, OurPlugins)) IN
    IF r.proxyOnly THEN others
    ELSE IF r.resolved THEN <<"mask">> \o others \o <<"restore">>
    ELSE <<r.pluginRef>> \o others

\* What the plugin warns of when it finds its entries in this order at its start.
OrderIssues(plugins) ==
    LET masks == Where(plugins, {"mask", "mask of old"})
        restores == Where(plugins, {"restore", "restore of old"})
        mask == CHOOSE i \in masks : \A j \in masks : i <= j
        restore == CHOOSE i \in restores : \A j \in restores : i >= j
    IN  IF masks \cup restores = {} THEN {} ELSE
            {kind \in {"double_registration"} : Where(plugins, {"whole"}) # {}}
            \cup {kind \in {"restore_before_mask"} : masks # {} /\ restores # {} /\ restore < mask}
            \cup {kind \in {"plugins_before_mask"} : masks # {} /\ mask > 1}
            \cup {kind \in {"plugins_after_restore"} : restores # {} /\ restore # Len(plugins)}

\* Mutant of Put: the installer's URL wins.
PutAlways(url, wanted) == wanted

\* A URL that somebody set is left alone.
Put(url, wanted) == IF url = Unset THEN wanted ELSE url

PatchEnv(urls, root) == [urls EXCEPT !["anthropic"] = Put(@, <<root, "anthropic">>)]
PatchProviders(urls, root) == [p \in DOMAIN urls |-> Put(urls[p], <<root, p>>)]
PatchRootKey(urls, root) == [urls EXCEPT !["codex"] = Put(@, <<root, "codex">>)]

Patched(h, r, content) ==
    [state |-> "text",
     entries |-> CASE h = "claude-code" -> EnsureHook(content.entries, r.command)
                   [] h = "opencode" -> PatchPlugins(content.entries, r)
                   [] OTHER -> PatchHookBlocks(content.entries, r.command),
     urls |-> IF r.root = "none" THEN content.urls
              ELSE CASE h = "claude-code" -> PatchEnv(content.urls, r.root)
                     [] h = "opencode" -> PatchProviders(content.urls, r.root)
                     [] OTHER -> PatchRootKey(content.urls, r.root)]

\* The providers the report calls enabled.
Written(h, r, urls) ==
    IF r.root = "none" THEN {} ELSE {p \in Providers(h) : urls[p] = <<r.root, p>>}

\* Mutant of Rivals: only a global installation looks into the projects.
RivalsOfGlobal(h, r) ==
    \/ h \in stray
    \/ r.scope = "global" /\ files[<<h, "project">>].state = "text" /\ files[<<h, "project">>].entries # <<>>

\* One of the hook blocks of a config.toml carries a command of ours.
CodexHasOurs(blocks, command) == \E i \in DOMAIN blocks : Recognised(blocks[i], command)

\* Whether a file of the other scope, or another file of the host, registers us too.
HasOurs(h, r, content) ==
    /\ Readable(h, content)
    /\ CASE h = "claude-code" ->
                \E i \in DOMAIN content.entries : \E j \in DOMAIN content.entries[i] :
                    Recognised(content.entries[i][j], r.command)
         [] h = "opencode" -> \E i \in DOMAIN content.entries : content.entries[i] \in OurPlugins
         [] OTHER -> CodexHasOurs(content.entries, r.command)

Rivals(h, r) ==
    \/ h \in stray
    \/ \E path \in Paths :
           path[1] = h /\ path[2] # r.scope /\ HasOurs(h, r, files[path])

-----------------------------------------------------------------------------
Host(i) == Head(todo[i])
Path(i) == <<Host(i), request[i].scope>>

\* The usage errors end an invocation before it has done anything.
Targets(r) == IF r.proxyOnly /\ "opencode" \notin r.targets THEN {} ELSE r.targets

Untried == [kind |-> "untried"]

Start(i, r) ==
    LET targets == Picked(Order, Where(Order, Targets(r))) IN
    /\ pc[i] = "idle"
    /\ request' = [request EXCEPT ![i] = r]
    /\ todo' = [todo EXCEPT ![i] = targets]
    /\ pc' = [pc EXCEPT ![i] = IF targets = <<>> THEN "done" ELSE "read"]
    /\ UNCHANGED <<files, origin, stray, before, outcome>>

\* The end of a host, and the start of the next one.
Ended(i, result) ==
    /\ outcome' = [outcome EXCEPT ![i][Host(i)] = result]
    /\ todo' = [todo EXCEPT ![i] = Tail(@)]
    /\ pc' = [pc EXCEPT ![i] = IF Tail(todo[i]) = <<>> THEN "done" ELSE "read"]

\* What cannot be parsed is not touched.
Read(i) ==
    /\ pc[i] = "read"
    /\ IF Readable(Host(i), files[Path(i)])
       THEN /\ before' = [before EXCEPT ![i] = files[Path(i)]]
            /\ pc' = [pc EXCEPT ![i] = "write"]
            /\ UNCHANGED <<todo, outcome>>
       ELSE Ended(i, [kind |-> "failed"]) /\ UNCHANGED before
    /\ UNCHANGED <<files, origin, stray, request>>

\* writeFile empties the file before it fills it; a dry run does neither.
Open(i) ==
    /\ pc[i] = "write"
    /\ IF request[i].dryRun
       THEN pc' = [pc EXCEPT ![i] = "scan"] /\ UNCHANGED files
       ELSE pc' = [pc EXCEPT ![i] = "fill"] /\ files' = [files EXCEPT ![Path(i)] = Torn(Host(i))]
    /\ UNCHANGED <<origin, stray, request, todo, before, outcome>>

Fill(i) ==
    /\ pc[i] = "fill"
    /\ files' = [files EXCEPT ![Path(i)] = Patched(Host(i), request[i], before[i])]
    /\ pc' = [pc EXCEPT ![i] = "config"]
    /\ UNCHANGED <<origin, stray, request, todo, before, outcome>>

\* The writing of pii-remover.json and of the token key, or anything before it, may throw:
\* the host counts as failed, with its settings already patched.
Config(i) == pc[i] = "config" /\ pc' = [pc EXCEPT ![i] = "scan"]
             /\ UNCHANGED <<files, origin, stray, request, todo, before, outcome>>

Throw(i) == pc[i] \in {"read", "write", "fill", "config"} /\ Ended(i, [kind |-> "failed"])
            /\ UNCHANGED <<files, origin, stray, request, before>>

\* Rivals are looked for when the own registration is written.
Scan(i) ==
    LET wrote == Patched(Host(i), request[i], before[i]) IN
    /\ pc[i] = "scan"
    /\ Ended(i, [kind |-> "installed", before |-> before[i], wrote |-> wrote,
                 enabled |-> Written(Host(i), request[i], wrote.urls),
                 rivals |-> Rivals(Host(i), request[i])])
    /\ UNCHANGED <<files, origin, stray, request, before>>

Die(i) == pc[i] \notin {"idle", "done", "dead"} /\ pc' = [pc EXCEPT ![i] = "dead"]
          /\ UNCHANGED <<files, origin, stray, request, todo, before, outcome>>

InstallInit ==
    /\ \E s \in Situations : files = s.files /\ stray = s.stray
    /\ origin = files
    /\ request = [i \in Invocations |-> [scope |-> "global"]]
    /\ pc = [i \in Invocations |-> "idle"]
    /\ todo = [i \in Invocations |-> <<>>]
    /\ before = [i \in Invocations |-> Nothing("codex")]
    /\ outcome = [i \in Invocations |-> [h \in Hosts |-> Untried]]

InstallNext == \E i \in Invocations :
    \/ \E r \in InstallRequests : Start(i, r)
    \/ Read(i) \/ Open(i) \/ Fill(i) \/ Config(i) \/ Throw(i) \/ Scan(i) \/ Die(i)

InstallSpec == InstallInit /\ [][InstallNext]_installVars

-----------------------------------------------------------------------------
\* The hooks of others, group by group, or the plugins of others.
TheirHooks(groups) ==
    LET theirs == [g \in DOMAIN groups |-> Picked(groups[g], Where(groups[g], Foreign))]
    IN  Picked(theirs, {g \in DOMAIN groups : theirs[g] # <<>>})

Theirs(h, content) == IF h = "claude-code" THEN TheirHooks(content.entries)
                      ELSE Picked(content.entries, Where(content.entries, Foreign))

InstallTypeOK ==
    /\ DOMAIN files = Paths /\ \A path \in Paths : files[path] \in Contents(path[1])
    /\ DOMAIN origin = Paths /\ \A path \in Paths : origin[path] \in Contents(path[1])
    /\ pc \in [Invocations -> {"idle", "read", "write", "fill", "config", "scan", "done", "dead"}]
    /\ todo \in [Invocations -> Seq(Hosts)]
    /\ DOMAIN request = Invocations /\ DOMAIN before = Invocations
    /\ DOMAIN outcome = Invocations /\ \A i \in Invocations : DOMAIN outcome[i] = Hosts
    /\ \A i \in Invocations : pc[i] # "idle" => request[i] \in InstallRequests
    /\ \A i \in Invocations : pc[i] \in {"read", "write", "fill", "config", "scan"} => todo[i] # <<>>
    /\ \A i \in Invocations : pc[i] \in {"write", "fill", "config", "scan"} =>
           before[i] \in Contents(Host(i)) /\ Readable(Host(i), before[i])

\* The one hook of ours in the settings of Claude Code.
OnlyHook(groups, command) ==
    \E g \in DOMAIN groups : \E i \in DOMAIN groups[g] :
        /\ groups[g][i] = command
        /\ \A f \in DOMAIN groups : \A j \in DOMAIN groups[f] :
               Recognised(groups[f][j], command) => f = g /\ j = i

\* Whatever was there before, what an installer writes registers it once (in Codex, where
\* it cannot delete, at least once), the plugin finds nothing to warn of, and a host that
\* had no URL gets the route its own API needs.
RegistrationIsRight ==
    \A i \in Invocations, h \in Hosts : outcome[i][h].kind = "installed" =>
        LET r == request[i]
            wrote == outcome[i][h].wrote
            ours == Where(wrote.entries, OurPlugins)
        IN  /\ h = "claude-code" => OnlyHook(wrote.entries, r.command)
            /\ h = "codex" => Where(wrote.entries, {r.command}) # {}
            /\ h = "opencode" =>
                   IF r.proxyOnly THEN ours = {}
                   ELSE IF r.resolved
                   THEN /\ wrote.entries[1] = "mask" /\ Last(wrote.entries) = "restore"
                        /\ ours = {1, Len(wrote.entries)} /\ OrderIssues(wrote.entries) = {}
                   ELSE wrote.entries[1] = r.pluginRef /\ ours \subseteq {1}
            /\ \A p \in Providers(h) :
                   IF outcome[i][h].before.urls[p] = Unset /\ r.root # "none"
                   THEN wrote.urls[p] = <<r.root, p>> /\ p \in outcome[i][h].enabled
                   ELSE wrote.urls[p] = outcome[i][h].before.urls[p]

\* What an invocation registers with a host is known as ours by any other one.
IsKnown(h, r) == IF h = "opencode" THEN ~r.proxyOnly /\ (r.resolved \/ r.pluginRef \in OurPlugins)
                 ELSE r.command \in Owned

\* Installing once more changes nothing (packages/opencode-plugin/README.md:59,
\* packages/cli/README.md:119); but an entry --command-path named is not recognised by
\* the next installer, which adds another one.
Idempotent ==
    \A i \in Invocations, h \in Hosts : outcome[i][h].kind = "installed" =>
        LET r == request[i] IN
        (h = "opencode" => r.proxyOnly \/ IsKnown(h, r)) =>
            Patched(h, r, outcome[i][h].wrote) = outcome[i][h].wrote

InstallInv == InstallTypeOK /\ RegistrationIsRight /\ Idempotent

\* No race of two installers, and no death of one in the middle of a write, drops what
\* others put into a JSON file that still parses: who finds half a file leaves it alone.
SettingsSurvive ==
    \A path \in Paths : path[1] # "codex" /\ files[path].state = "text" =>
        Theirs(path[1], files[path]) = Theirs(path[1], origin[path])

\* Of two installers that register one host in both scopes at the same time, at least
\* one says so: each writes before it looks (install.ts:929-933).
RivalsAreNamed ==
    \A i, j \in Invocations, h \in Hosts :
        /\ outcome[i][h].kind = "installed" /\ outcome[j][h].kind = "installed"
        /\ request[i].scope # request[j].scope
        /\ \A k \in {i, j} : ~request[k].dryRun /\ IsKnown(h, request[k])
        => outcome[i][h].rivals \/ outcome[j][h].rivals

=============================================================================
