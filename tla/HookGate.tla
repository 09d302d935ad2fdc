------------------------------ MODULE HookGate -----------------------------
(***************************************************************************)
(* The UserPromptSubmit hook (packages/cli/src/commands/hook.ts): a        *)
(* process per prompt, which cannot change the prompt but may block it.    *)
(* It lets personal data pass to a server of this machine, which it takes  *)
(* for the proxy, and when it cannot tell it blocks.  Every step may fail, *)
(* the writing of the answer and the dispose after it included.            *)
(***************************************************************************)
EXTENDS Naturals, Sequences

CONSTANTS
    Personal,     \* personal data in a prompt
    Urls        \* what ANTHROPIC_BASE_URL may hold, as <<host, path>>; <<"unset", "">>

VARIABLES
    env,        \* [url, trust, bypass, auto_start]
    prompt,     \* the values in it
    stage,
    stdout,     \* the decisions written so far
    exit,
    host        \* "waiting", "sent" or "blocked"

hookVars == <<env, prompt, stage, stdout, exit, host>>

Stages == <<"stdin", "parse", "config", "start", "init", "mask">>

-----------------------------------------------------------------------------
\* Mutant of Configured: the prefix of the proxy's route is enough.
ConfiguredByPath(e) == e.trust \/ e.url[1] = "local" \/ e.url[2] = "anthropic"

\* A host that is not local is not trusted, whatever its path; a local one is, whatever
\* its path: one that is not the proxy's changes the reason only.
Configured(e) == e.trust \/ e.url[1] = "local"

HookInit ==
    /\ env \in [url : Urls, trust : BOOLEAN, bypass : BOOLEAN, auto_start : BOOLEAN]
    /\ prompt \in SUBSET Personal
    /\ stage = "stdin" /\ stdout = <<>> /\ exit = "running" /\ host = "waiting"

\* What went wrong is told with exit code 2, and on stdout if that still works.  Mutant: as
\* an error that does not block.
FailOpen ==
    /\ stage' = "ended" /\ exit' = 1
    /\ stdout' \in {stdout, Append(stdout, "block")}
    /\ UNCHANGED <<env, prompt, host>>

Fail ==
    /\ stage' = "ended" /\ exit' = 2
    /\ stdout' \in {stdout, Append(stdout, "block")}
    /\ UNCHANGED <<env, prompt, host>>

\* The steps before the masking; the backend is started only if the settings say so.
Prepare ==
    \E i \in 1 .. 5 :
        /\ stage = Stages[i]
        /\ \/ /\ stage' = IF stage = "config" /\ ~env.auto_start THEN "init" ELSE Stages[i + 1]
              /\ UNCHANGED <<env, prompt, stdout, exit, host>>
           \/ Fail

\* With the bypass set, mask() returns the text as it is, with no tokens.
Tokens == IF env.bypass THEN {} ELSE prompt

\* Mutant of Decision: it asks for the proxy only.
DecisionOfProxy == IF Configured(env) \/ Tokens = {} THEN "context" ELSE "silent"

Decision ==
    IF Tokens = {} THEN "silent"
    ELSE IF Configured(env) THEN "context" ELSE "block"

Mask ==
    /\ stage = "mask"
    /\ \/ Fail
       \/ /\ stdout' = Append(stdout, Decision) /\ stage' = "dispose"
          /\ UNCHANGED <<env, prompt, exit, host>>

\* A dispose that throws after the answer was written is a failure like any other.
Dispose ==
    /\ stage = "dispose"
    /\ \/ Fail
       \/ stage' = "ended" /\ exit' = 0 /\ UNCHANGED <<env, prompt, stdout, host>>

\* The host: exit code 2 blocks, another failure does not; else the answer decides.
HostDecides ==
    /\ stage = "ended" /\ host = "waiting"
    /\ host' = IF exit = 2 \/ (exit = 0 /\ stdout = <<"block">>) THEN "blocked" ELSE "sent"
    /\ UNCHANGED <<env, prompt, stage, stdout, exit>>

HookNext == Prepare \/ Mask \/ Dispose \/ HostDecides

HookSpec == HookInit /\ [][HookNext]_hookVars

-----------------------------------------------------------------------------
HookTypeOK ==
    /\ prompt \subseteq Personal /\ host \in {"waiting", "sent", "blocked"}
    /\ stage \in {Stages[i] : i \in DOMAIN Stages} \cup {"dispose", "ended"}

\* hook.ts: whatever step fails, a prompt with personal data goes to no other machine than
\* this one, unless the user vouches for it or has masking switched off by name; and a
\* prompt that went out was masked for the context without an error on the way.  It does
\* not say that what listens on this machine masks it.
GateIsClosed ==
    host = "sent" =>
        /\ exit = 0 /\ stdout # <<>>
        /\ prompt # {} => env.trust \/ env.bypass \/ env.url[1] = "local"

\* packages/cli/README.md:184: without those two a prompt with personal data goes to a
\* local URL under /anthropic/ only, which is where the proxy masks it.
PromptsMeetTheRoute ==
    host = "sent" /\ prompt # {} =>
        env.trust \/ env.bypass \/ env.url = <<"local", "anthropic">>
=============================================================================
