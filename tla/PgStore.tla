------------------------------ MODULE PgStore -------------------------------
(***************************************************************************)
(* The tools of the PostgreSQL store (infrastructure/store/postgres.go).   *)
(* Every method is one SQL statement, which the database makes atomic.     *)
(*                                                                         *)
(* An entry of tags or rbac is [base, form].  The lists are written as     *)
(* array literals, unquoted, and read back by splitting the text the       *)
(* database returns, so that the form decides what becomes of an entry:    *)
(*   lower, mixed  a word, which comes back as it was;                     *)
(*   padded        a word with blanks around it, which the database drops; *)
(*   blank         words with a blank between them, which the database     *)
(*                 returns in quotes that the code keeps (form quoted);    *)
(*   quoted        such an entry sent with quotes around it, which the     *)
(*                 database takes off and puts on again;                   *)
(*   joined        words with a comma between them: several entries;       *)
(*   empty         nothing: the list {} if alone, else a malformed literal.*)
(* A word is not "null" and holds no quote, brace or backslash.  A list is *)
(* the set of its entries.  The JSON columns come back as they were        *)
(* written.                                                                *)
(***************************************************************************)
EXTENDS Listing

CONSTANTS
    Pieces(_),          \* the words of a joined entry
    TextAfter(_, _)     \* the database's > on the text of two versions

Entry(e) ==
    /\ e = [base |-> e.base, form |-> e.form]
    /\ e.form \in {"lower", "mixed", "padded", "blank", "quoted", "joined", "empty"}

\* The fields that the statements name.  Padded tags are left out, which
\* EqualFold would tell from their words.
ASSUME DefFields ==
    \A d \in ToolDefs :
        /\ d = [f \in DOMAIN d |-> d[f]]
        /\ {"tenant", "name", "version", "kind", "tags", "rbac"} \subseteq DOMAIN d
        /\ \A e \in d.tags \cup d.rbac : Entry(e)
        /\ \A e \in d.tags : e.form # "padded"

VARIABLE rows           \* the table: from id to row

PgInit == rows = <<>>

toolID(d) == d.tenant \o d.name \o <<d.version>>

\* Is the list's array literal well formed?  Two empty entries, the literal {,},
\* are not told from one here: that their statement fails is one of the
\* outcomes of every statement.
Literal(list) == \A e \in list : e.form = "empty" => list = {e}

\* What the database makes of it.
Element(e) ==
    CASE e.form = "padded" -> [e EXCEPT !.form = "lower"]
      [] e.form = "quoted" -> [e EXCEPT !.form = "blank"]
      [] OTHER -> e

Column(list) ==
    UNION {IF e.form = "joined" THEN Pieces(e) ELSE {Element(e)} :
             e \in {e \in list : e.form # "empty"}}

\* Mutant: quoted entries are skipped.
splitCSVSkipping(column) == {e \in column : e.form # "blank"}

splitCSV(column) ==
    {IF e.form = "blank" THEN [e EXCEPT !.form = "quoted"] ELSE e : e \in column}

Row(d)         == [d EXCEPT !.rbac = Column(@), !.tags = Column(@)]
rowToTool(row) == [row EXCEPT !.rbac = splitCSV(@), !.tags = splitCSV(@)]

\* The statement of SaveTool is refused for a malformed literal.
CanSave(d) == Literal(d.rbac) /\ Literal(d.tags)

\* Mutant: ON CONFLICT DO NOTHING.
PgSaveToolDoNothing(d) ==
    rows' = [id \in DOMAIN rows \cup {toolID(d)} |->
               IF id \in DOMAIN rows THEN rows[id] ELSE Row(d)]

\* A conflicting row keeps its tenant and its name.
PgSaveTool(d) ==
    LET id  == toolID(d)
        new == IF id \in DOMAIN rows
               THEN [Row(d) EXCEPT !.tenant = rows[id].tenant, !.name = rows[id].name]
               ELSE Row(d)
    IN rows' = [k \in DOMAIN rows \cup {id} |-> IF k = id THEN new ELSE rows[k]]

RowsOf(tenant, name) == {r \in Range(rows) : r.tenant = tenant /\ r.name = name}

PgGetTool(tenant, name, version) ==
    {rowToTool(r) : r \in {r \in RowsOf(tenant, name) : r.version = version}}

\* ORDER BY version DESC LIMIT 1
PgGetLatestTool(tenant, name) ==
    LET S == RowsOf(tenant, name) IN
    {rowToTool(r) : r \in {r \in S : \A q \in S : ~TextAfter(q.version, r.version)}}

PgDeleteTool(tenant, name) ==
    rows' = Restrict(rows, {id \in DOMAIN rows : rows[id] \notin RowsOf(tenant, name)})

\* Every tag of the filter must be there, spelled alike.
PgMatches(r, tenant, filter) ==
    r.tenant = tenant /\ filter.kind \in {"", r.kind} /\ filter.tags \subseteq r.tags

\* Mutant: no ORDER BY.
PgListToolsUnordered(tenant, filter) ==
    LET found == {rowToTool(r) : r \in {r \in Range(rows) : PgMatches(r, tenant, filter)}}
    IN {Cut(s, filter.limit) : s \in SetToSeqs(found)}

\* ORDER BY name leaves the order of a name's versions open, as in ListTools.
\* Assumed: the collation of the database orders names as Go's < does (Before).
PgListTools(tenant, filter) ==
    LET found == {rowToTool(r) : r \in {r \in Range(rows) : PgMatches(r, tenant, filter)}}
    IN {Cut(s, filter.limit) : s \in {s \in SetToSeqs(found) : Sorted(s)}}
=============================================================================
