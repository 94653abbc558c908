------------------------------ MODULE MCServices ------------------------------
(***************************************************************************)
(* Instances of Credentials, AcmeHook and Health for TLC.  The three share *)
(* no state that their properties are about: focus, chosen at the start,   *)
(* says which of them runs, or which requests about credentials arrive.    *)
(***************************************************************************)
EXTENDS Credentials, AcmeHook, Health, TLC

CONSTANTS e1, e2

VARIABLE focus
idleVars == <<hookVars, healthVars>>

\* Requests that are not safe beside each other: what one checks the other takes away, what
\* one stores under an id the other frees, and two builds that both find no token.
Unsafe ==
    {{"build"}}
    \cup {{k, "import"} : k \in {"newprofile", "reprofile", "unprofile", "cert", "recert",
                                "cleardir", "uneab"}}
    \cup {{k, "unprofile"} : k \in {"newprofile", "reprofile", "cert", "recert"}}
    \cup {{k, j} : k \in {"cert", "recert"}, j \in {"cleardir", "uneab"}}

Cert(dns, ca) == [dns |-> dns, ca |-> ca]

\* One document that is accepted, with a directory or without, one that keeps the
\* directory, and two that are not accepted.
MCImports ==
    {[profiles |-> {1}, certs |-> 1 :> Cert(1, "custom"), directory |-> "url"],
     [profiles |-> {1}, certs |-> 1 :> Cert(1, "plain"), directory |-> "empty"],
     [profiles |-> {1}, certs |-> 1 :> Cert(0, "eab"), directory |-> None],
     [profiles |-> {}, certs |-> 1 :> Cert(1, "plain"), directory |-> None],
     [profiles |-> {1}, certs |-> 1 :> Cert(0, "custom"), directory |-> "empty"]}

Foci == {"secrets", "certificates", "token", "hook", "health"}

InFocus(f, q) ==
    CASE f = "secrets" -> q.kind \in {"newprofile", "reprofile", "unprofile", "import"}
      [] f = "certificates" ->
            /\ q.kind \notin {"newprofile", "reprofile", "build"}
            /\ q.kind = "puteab" => q.pair = e1
            /\ q.kind \in {"cert", "recert"} => q.dns = 0 \/ (q.dns = 1 /\ q.ca # "eab")
            /\ q.kind = "unprofile" => q.id = 1
      [] f = "token" -> q.kind \in {"build", "puteab", "newprofile"}
      [] OTHER -> FALSE

FocusAsks == [f \in Foci |-> {q \in Asks : InFocus(f, q)}]

MCInit ==
    /\ focus \in Foci
    /\ Init /\ (focus \in {"hook", "health"} => profiles = {})
            /\ (focus = "certificates" => profiles # {})
    /\ HookInit
    /\ HealthInit /\ (focus # "health" => \A h \in Hosts : hosts[h] = "on")

MCNext ==
    \/ focus \notin {"hook", "health"} /\ NextOf(FocusAsks[focus]) /\ UNCHANGED <<focus, idleVars>>
    \/ focus = "hook" /\ HookNext /\ UNCHANGED <<focus, vars, healthVars>>
    \/ focus = "health" /\ HealthNext /\ UNCHANGED <<focus, vars, hookVars>>

MCSpec == MCInit /\ [][MCNext]_<<focus, vars, idleVars>> /\ HealthFairness
=============================================================================
