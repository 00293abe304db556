----------------------------- MODULE MCDatabase -----------------------------
(***************************************************************************)
(* Every statement of database.Store on small tables: the fake, with the   *)
(* differences we know of left out, against Postgres.  A behaviour calls   *)
(* the statements of one part; no statement reads the tables of two.       *)
(***************************************************************************)
EXTENDS FakeStore

CONSTANTS Parts,
          ShorterParts   \* the parts with one call less

VARIABLE part

vars == <<part, focus, slices, answer, calls>>

SmallNames == {"a", "A", "b", "x", "y", "ada", "Ada", "Everyone"}

SmallLowerOf ==
    [n \in SmallNames |-> CASE n = "A" -> "a" [] n = "Ada" -> "ada" [] OTHER -> n]

SmallPartsOf ==
    [n \in SmallNames |-> CASE n = "ada" -> {"ad"} [] n = "x" -> {"x"} [] OTHER -> {}]

SmallHeldBy == [p \in {"a"} |-> {"a", "A"}]

SmallRankOf == [n \in {"a", "A"} |-> IF n = "A" THEN 1 ELSE 2]

SmallNameOf == [u \in {1, 2} |-> IF u = 1 THEN "a" ELSE "b"]

SmallTitleOf == [t \in {1, 2} |-> IF t = 1 THEN "A" ELSE "b"]

SmallTemplateOf == [v \in {1} |-> 1]

Job(id, started, completed) ==
    [id |-> id, created_at |-> 1, updated_at |-> 2, started |-> started, canceled |-> 0,
     completed |-> completed, error |-> FALSE, type |-> "echo", tags |-> {}, worker |-> 0]

Workspace(id, name) ==
    [id |-> id, owner |-> 1, template |-> 1, name |-> name, created_at |-> 1, deleted |-> FALSE,
     autostart |-> 0, ttl |-> 0, used |-> 0]

Started(id) == [id |-> id, workspace |-> 1, number |-> id, job |-> id, transition |-> "start"]

SmallJobs == <<Job(1, 1, 2), Job(2, 0, 0)>>

SmallWorkspaces == <<Workspace(1, "a"), Workspace(2, "b")>>

SmallBuilds == <<Started(1), Started(2)>>

Init == /\ part \in Parts
        /\ \/ part = "accounts" /\ AccountInit /\ focus = "all"
           \/ part = "groups" /\ GroupInit /\ focus = "all"
           \/ part = "templates" /\ TemplateInit
           \/ part = "builds" /\ BuildInit
           \/ part = "resources" /\ ResourceInit /\ focus = "all"
           \/ part = "site" /\ SiteInit

Next == /\ UNCHANGED part
        /\ part \in ShorterParts => calls < MaxCalls - 1
        /\ \/ part = "accounts" /\ AccountNext /\ UNCHANGED focus
           \/ part = "groups" /\ GroupNext /\ UNCHANGED focus
           \/ part = "templates" /\ TemplateNext
           \/ part = "builds" /\ BuildNext
           \/ part = "resources" /\ ResourceNext /\ UNCHANGED focus
           \/ part = "site" /\ SiteNext

Spec == Init /\ [][Next]_vars

-----------------------------------------------------------------------------
SQLInit == \/ part = "accounts" /\ SQL!AccountInit
           \/ part = "groups" /\ SQL!GroupInit
           \/ part = "templates" /\ SQL!TemplateInit
           \/ part = "builds" /\ SQL!BuildInit
           \/ part = "resources" /\ SQL!ResourceInit
           \/ part = "site" /\ SQL!SiteInit

SQLNext == \/ part = "accounts" /\ SQL!AccountNext
           \/ part = "groups" /\ SQL!GroupNext
           \/ part = "templates" /\ SQL!TemplateNext
           \/ part = "builds" /\ SQL!BuildNext
           \/ part = "resources" /\ SQL!ResourceNext
           \/ part = "site" /\ SQL!SiteNext

\* Refinement: every call of databasefake is a statement of queries.sql.go on
\* the rows that the fake's slices hold, with an answer Postgres could give.
ImplementsSQL == SQLInit /\ [][SQLNext]_<<slices, answer>>

\* What databasefake says in any state, Postgres could say of the same rows; and a
\* workspace is in the list filtered by the status it is shown with (getWorkspaces against
\* convertWorkspaceStatus).
AnswersAgree ==
    /\ part = "accounts" => UserQueriesAgree /\ CredentialQueriesAgree
    /\ part = "groups" => GroupQueriesAgree
    /\ part = "templates" => TemplateQueriesAgree /\ ParameterQueriesAgree
    /\ part = "builds" => JobQueriesAgree /\ BuildQueriesAgree /\ SQL!StatusFilterFinds
    /\ part = "resources" => ResourceQueriesAgree
    /\ part = "site" => SiteQueriesAgree
=============================================================================
