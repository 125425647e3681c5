---------------------------- MODULE CodexVerify ----------------------------
(***************************************************************************)
(* How dispatch verifies a thread before it starts a turn on it            *)
(* (verifyThreadFeatures and verifyMCPInventory, adapters/codex/adapter.go):*)
(* both read a list page by page from the native process, which may return *)
(* any entries in any order, and compare it with what the node wants.      *)
(***************************************************************************)
EXTENDS Integers, FiniteSets

CONSTANTS
  Names,        \* names of features, or of MCP servers
  Wanted,       \* the ones the node wants
  Cursors,      \* cursors the native process may return
  Enabled,      \* the features nativeFeatureOverrides wants on, the others off
  MaximumPages, \* maximumFeaturePages
  MaxEntries    \* bound on the entries of a page

\* What the constants have to be; the modules that put this one to work assume it.
VerifyAssumption ==
  /\ Wanted \subseteq Names /\ Enabled \subseteq Wanted
  /\ MaximumPages \in Nat /\ MaxEntries \in Nat
  /\ {"first", "last"} \cap Cursors = {}

VARIABLES
  list,      \* "features" or "servers"
  page,      \* pages read
  cursor,    \* the cursor of the next call
  seen,      \* seenCursors
  observed,  \* observed, with the value of a feature
  result,    \* "reading", "verified" or "refused"
  listed,    \* every entry that was returned: name, value
  twice      \* some name was returned twice

vars == <<list, page, cursor, seen, observed, result, listed, twice>>

Entries == Names \X BOOLEAN
Named(entries) == {e[1] : e \in entries}

Init ==
  /\ list \in {"features", "servers"}
  /\ page = 0 /\ cursor = "first" /\ seen = {} /\ observed = {}
  /\ result = "reading" /\ listed = {} /\ twice = FALSE

\* A feature the node wants is observed with its value; a second value conflicts.
\* The others are passed over.
FeaturesAgree(entries) ==
  LET mine == {e \in entries : e[1] \in Wanted} \cup observed
  IN \A e, g \in mine : e[1] = g[1] => e[2] = g[2]

\* Mutant of ServersAgree: a server listed twice is not noticed.
ServersWanted(entries) == Named(entries) \subseteq Wanted

\* A server must be one the node wants, and be listed once.
ServersAgree(entries) ==
  /\ Named(entries) \subseteq Wanted
  /\ Named(entries) \cap Named(observed) = {}
  /\ Cardinality(Named(entries)) = Cardinality(entries)

Agrees(entries) == IF list = "features" THEN FeaturesAgree(entries) ELSE ServersAgree(entries)

Observed(entries) == observed \cup {e \in entries : e[1] \in Wanted}

\* After the last page: every wanted feature has its value, every server was listed.
\* A policy that wants no feature is not enforced.
Complete(got) ==
  IF list = "features"
  THEN /\ Wanted # {}
       /\ \A n \in Wanted : <<n, n \in Enabled>> \in got
  ELSE Named(got) = Wanted

\* A cursor that was already followed would make the loop go round.
NewCursor(next) == next \notin seen

MorePages == page < MaximumPages

Page ==
  /\ result = "reading" /\ MorePages
  /\ page' = page + 1
  /\ \E entries \in SUBSET Entries, next \in Cursors \cup {"last"} :
       /\ Cardinality(entries) <= MaxEntries
       /\ listed' = listed \cup entries
       /\ twice' = (twice \/ Named(entries) \cap Named(listed) # {}
                          \/ Cardinality(Named(entries)) # Cardinality(entries))
       /\ IF ~Agrees(entries)
          THEN result' = "refused" /\ UNCHANGED <<cursor, seen, observed>>
          ELSE /\ observed' = Observed(entries)
               /\ IF next = "last"
                  THEN /\ result' = IF Complete(Observed(entries)) THEN "verified" ELSE "refused"
                       /\ UNCHANGED <<cursor, seen>>
                  ELSE IF NewCursor(next)
                       THEN cursor' = next /\ seen' = seen \cup {next} /\ UNCHANGED result
                       ELSE result' = "refused" /\ UNCHANGED <<cursor, seen>>
  /\ UNCHANGED list

\* The call fails, or the loop has used its pages.
Refuse ==
  /\ result = "reading"
  /\ result' = "refused"
  /\ UNCHANGED <<list, page, cursor, seen, observed, listed, twice>>

Next == Page \/ Refuse

Spec == Init /\ [][Next]_vars

-----------------------------------------------------------------------------
(* Properties *)

\* TypeOK: a type for every variable; no more calls than pages.
TypeOK ==
  /\ list \in {"features", "servers"}
  /\ page \in 0..MaximumPages
  /\ cursor \in Cursors \cup {"first"} /\ seen \subseteq Cursors
  /\ observed \subseteq Entries /\ listed \subseteq Entries
  /\ result \in {"reading", "verified", "refused"} /\ twice \in BOOLEAN

\* VerifiedMeansEnforced: a thread is verified only when no page contradicted what the node
\* wants: each wanted feature was listed with its value and with no other, in
\* whatever order and however often; the servers are exactly the wanted ones,
\* each listed once.
VerifiedMeansEnforced ==
  result = "verified" =>
    IF list = "features"
    THEN {e \in listed : e[1] \in Wanted} = {<<n, n \in Enabled>> : n \in Wanted}
    ELSE Named(listed) = Wanted /\ ~twice
=============================================================================
