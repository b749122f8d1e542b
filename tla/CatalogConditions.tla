-------------------------- MODULE CatalogConditions --------------------------
(* Conditions on the scripts of a catalogue, each of which makes an invariant  *)
(* of CommandRun true however its commands are run.  They concern the order of *)
(* the steps only.  TLC evaluates them for the scripts of the catalogue; that  *)
(* they are enough is proved in CommandRun_proofs.                             *)
EXTENDS CommandRun

Machine == {"show", "silent"}       \* a document in the machine formats
TellsInText == {"show", "text", "echo"}     \* something is printed in text

Succeeds(step) == step.does = "exit" /\ step.call = "success"

\* Logins before step j, and those in services, are enough for it.
Backed(s, j, services) ==
    \A service \in s[j].on :
        \/ service \in services
        \/ \E i \in DOMAIN s : i < j /\ s[i].does = "login" /\ service \in s[i].on

\* After a change there are output and clients whose logins were checked.
Reports(step) ==
    step.does \in {"names", "show", "silent", "text", "echo", "verbose"} \/ Succeeds(step)

ReportedFrom(s, services) ==
    \A i, j \in DOMAIN s :
        i < j /\ s[i].does \in Changes =>
            \/ Reports(s[j])
            \/ s[j].does = "client" /\ Backed(s, j, services)

\* Nothing is printed besides the document, and one comes before any success, or
\* at most one where there need not be any.
NothingElse(s) == \A i \in DOMAIN s : s[i].does \notin {"echo", "verbose"}
ShowsOnce(s) ==
    \E i \in DOMAIN s :
        /\ s[i].does \in Machine /\ s[i].guard # "user"
        /\ \A j \in DOMAIN s : j # i => s[j].does \notin Machine
        /\ \A j \in DOMAIN s : j < i => ~Succeeds(s[j])
ShowsAtMostOnce(s) ==
    \A i, j \in DOMAIN s : s[i].does \in Machine /\ s[j].does \in Machine => i = j
NeverSucceeds(s) ==
    \E i \in DOMAIN s :
        /\ s[i].does = "exit" /\ s[i].guard # "user"
        /\ \A j \in DOMAIN s : j <= i => ~Succeeds(s[j])

\* A client is made for services whose logins were checked, or is the auth client.
ClientsBacked(s, services, name) ==
    \A j \in DOMAIN s :
        s[j].does = "client" =>
            /\ s[j].guard # "run"
            /\ \/ Backed(s, j, services)
               \/ s[j].on = {"auth"} /\ name \in AuthUnasked

\* Each change is announced by the next step, which announces nothing else.
Announced(s) ==
    /\ \A i \in DOMAIN s :
        /\ s[i].does # "verbose"
        /\ s[i].does \in TellsInText \union Changes => s[i].guard # "user"
        /\ s[i].does \in Changes => i + 1 \in DOMAIN s /\ s[i + 1].does \in TellsInText
    /\ \A i \in DOMAIN s :
        i > 1 /\ s[i].does \in TellsInText => s[i - 1].does \in Changes
-------------------------------------------------------------------------------
ASSUME ReportedAssumption ==
    \A c \in Catalog : \A s \in c.scripts :
        c.name \notin {"task cancel", "rm"} => ReportedFrom(s, {})

ASSUME DocumentAssumption ==
    \A c \in Catalog : \A s \in c.scripts :
        c.name \notin FreeText =>
            /\ NothingElse(s)
            /\ \/ ShowsOnce(s) \/ NeverSucceeds(s)
               \/ c.name \in Undocumented /\ ShowsAtMostOnce(s)

ASSUME ClientsAssumption ==
    \A c \in Catalog : \A s \in c.scripts :
        /\ ClientsBacked(s, {}, c.name)
        /\ \A i \in DOMAIN s :
            s[i].does = "exit" /\ s[i].call = "auth" =>
                s[i].guard = "user" \/ c.name = "collection create guest"

ASSUME AnnouncedAssumption ==
    \A c \in Catalog : \A s \in c.scripts :
        c.name = "task cancel" =>
            /\ Announced(s)
            /\ s # <<>> => Head(s).does \notin TellsInText
==============================================================================
