------------------------------- MODULE DBRows -------------------------------
(***************************************************************************)
(* Rows, as the two implementations of database.Store hold them.  Postgres *)
(* keeps a table as a set of rows: a query without ORDER BY may return     *)
(* them in any order.  databasefake keeps a slice and walks it from the    *)
(* front, so its answers are functions of the slice.  An answer of the     *)
(* fake is right when Postgres could have given it.                        *)
(***************************************************************************)
EXTENDS Naturals, Sequences, FiniteSets, SequencesExt

CONSTANTS NoRows,         \* sql.ErrNoRows
          DuplicateKey,   \* unique_violation, errDuplicateKey in the fake
          ForeignKey,     \* foreign_key_violation
          Panic,
          Done            \* no result, no error

\* What callers pass: ids, names, time stamps and the values of enumerations.
CONSTANTS Users, Emails, Usernames, Roles, LoginTypes, LinkedIDs, Keys, Times, Orgs, Groups,
          Names, Allowances, IDs, Creators, Jobs, Scopes, Days, Owners, Templates, Costs,
          Types, Tags, Tokens, Slugs, Values, Kinds, Expiries

CONSTANTS LowerOf,        \* LOWER() of every name and e-mail
          PartsOf,        \* the search strings a lowered name contains
          HeldBy,         \* the names a pattern of ILIKE occurs in
          RankOf,         \* a name's place in the order of names
          NameOf,         \* users.username, of users that are not deleted
          TitleOf,        \* templates.name, of templates that are not deleted
          TemplateOf,     \* template_versions.template_id
          Now,            \* NOW()
          MonthAgo,       \* NOW() less 30 days
          OldTimes,       \* instants more than 30 seconds ago
          Inactive,       \* how long an agent may be silent
          MaxLogID,
          SeededJobs, SeededWorkspaces, SeededBuilds   \* rows a behaviour starts with

\* The rows of workspaces that have a build, as every workspace of coderd has.
BuiltWorkspaces == SelectSeq(SeededWorkspaces, LAMBDA w :
                       \E b \in ToSet(SeededBuilds) : b.workspace = w.id)

\* ---- Postgres: what a statement may return, what it leaves in a table ----

\* The answers a ":one" query may give over the rows that match.
One(rows) == IF rows = {} THEN {NoRows} ELSE rows

\* UPDATE ... WHERE: every row that matches is rewritten.
Rewritten(table, Matches(_), New(_)) ==
    {IF Matches(r) THEN New(r) ELSE r : r \in table}

\* The fake's slice holds exactly these rows, in whatever order.
SameRows(slice, rows) ==
    /\ Len(slice) = Cardinality(rows)
    /\ ToSet(slice) = rows

\* ... and in the order of the query's ORDER BY.
SortedRows(slice, rows, Before(_, _)) ==
    /\ SameRows(slice, rows)
    /\ \A i, j \in DOMAIN slice : i < j => ~Before(slice[j], slice[i])

\* ---- databasefake: loops over a slice ----

\* "for _, row := range slice { if Matches(row) { return row, nil } }".
FirstOf(slice, Matches(_)) ==
    LET hits == SelectSeq(slice, Matches)
    IN  IF hits = <<>> THEN NoRows ELSE hits[1]

\* The same loop writing the row back: only the first match changes.
FirstChanged(slice, Matches(_), New(_)) ==
    [i \in DOMAIN slice |->
        IF Matches(slice[i]) /\ \A j \in 1..(i - 1) : ~Matches(slice[j])
        THEN New(slice[i]) ELSE slice[i]]

\* "slice[i] = slice[len-1]; slice = slice[:len-1]" at the first match.
SwapRemoved(slice, Matches(_)) ==
    IF \E i \in DOMAIN slice : Matches(slice[i])
    THEN LET at == CHOOSE i \in DOMAIN slice :
                      Matches(slice[i]) /\ \A j \in 1..(i - 1) : ~Matches(slice[j])
         IN  SubSeq([slice EXCEPT ![at] = slice[Len(slice)]], 1, Len(slice) - 1)
    ELSE slice

Without(slice, Matches(_)) == SelectSeq(slice, LAMBDA r : ~Matches(r))

\* slice[offset:][:limit] as the fake clamps them, 0 standing for "not given".
Paged(slice, offset, limit) ==
    IF offset > 0 /\ offset > Len(slice) - 1 THEN <<>>
    ELSE LET rest == SubSeq(slice, offset + 1, Len(slice))
         IN  IF limit > 0 /\ limit <= Len(rest) THEN SubSeq(rest, 1, limit) ELSE rest

=============================================================================
