------------------------------- MODULE RunEditor -------------------------------
(***************************************************************************)
(* The edits of a tailored run.  Four endpoints change agent_runs.          *)
(* final_output, one JSON column: each loads the row, computes a whole new  *)
(* document from what it loaded (two of them across language-model calls)   *)
(* and writes it back with no lock and no version check.  The executor      *)
(* writes the same column when the agent graph ends.                        *)
(*                                                                         *)
(* A text is the request that wrote it, so that two edits never look alike. *)
(***************************************************************************)
EXTENDS Integers, Sequences

CONSTANTS
    Requests,     \* the edit requests the owner sends, each handled once
    Sections,     \* SECTION_KEYS
    Source,       \* the sections the master resume has content for
    Variants,     \* VariantName
    Default,      \* DEFAULT_VARIANT
    Agent,        \* the agent graph, as an author of text
    NoText        \* no text, or an empty one

ASSUME EditorAssumption ==
    /\ Source \subseteq Sections
    /\ Default \in Variants
    /\ Agent \notin Requests /\ NoText \notin Requests /\ Agent # NoText

VARIABLES
    status,     \* agent_runs.status: "running" stands for every status before the end
    viewable,   \* AccessService.can_view_output for the owner
    row,        \* agent_runs.final_output as committed
    request,    \* what each request has loaded and means to do
    log         \* history: the committed writes, and how much of the history each had read

vars == <<status, viewable, row, request, log>>

Texts == Requests \cup {Agent, NoText}
Drafts == [Sections -> Texts]

Document ==
    [ built    : SUBSET Variants,                        \* DOMAIN final["variants"]
      text     : [Variants -> Drafts],                   \* their sections
      selected : Variants,
      override : [Sections -> Requests \cup {NoText}],   \* sections_editable[s].user_override
      shown    : Drafts,                                 \* sections; plain_text renders them
      contact  : BOOLEAN ]                               \* plain_text starts with the header

Edits == [kind : {"select", "generate"}, arg : Variants]
           \cup [kind : {"override", "add"}, arg : Sections]
Writes == Edits \cup [kind : {"agent"}, arg : Variants]

\* final_output before the agent has written it.
EmptyDocument ==
    [ built    |-> {},
      text     |-> [v \in Variants |-> [s \in Sections |-> NoText]],
      selected |-> Default,
      override |-> [s \in Sections |-> NoText],
      shown    |-> [s \in Sections |-> NoText],
      contact  |-> FALSE ]

\* The document the agent graph hands to the executor for a run launched with v.
AgentDocument(v) ==
    LET drafts == [s \in Sections |-> IF s \in Source THEN Agent ELSE NoText]
    IN  [ built    |-> {v},
          text     |-> [EmptyDocument.text EXCEPT ![v] = drafts],
          selected |-> v,
          override |-> EmptyDocument.override,
          shown    |-> drafts,
          contact  |-> TRUE ]

\* A draft with the user's own texts laid over it.
Overlaid(draft, override) ==
    [s \in Sections |-> IF override[s] # NoText THEN override[s] ELSE draft[s]]

--------------------------------------------------------------------------------
(* The document each endpoint computes from the one it loaded. *)

SelectVariant(d, v) ==
    [d EXCEPT !.selected = v, !.shown = Overlaid(d.text[v], d.override), !.contact = FALSE]

\* The sections shown are rebuilt from the selected variant and this one edit.
UpdateSectionOverride(d, s, r) ==
    [d EXCEPT !.override[s] = r, !.shown = [d.text[d.selected] EXCEPT ![s] = r],
              !.contact = FALSE]

\* A slip: the new variant replaces the dictionary instead of joining it.
GenerateVariantAlone(d, v, r) ==
    [d EXCEPT !.built = {v},
              !.text[v] = [s \in Sections |-> IF s \in Source THEN r ELSE NoText]]

\* Tailors the sections of the master resume again; what is shown stays as it was.
GenerateVariant(d, v, r) ==
    [d EXCEPT !.built = @ \cup {v},
              !.text[v] = [s \in Sections |-> IF s \in Source THEN r ELSE NoText]]

\* A slip: the document is rebuilt without the overrides.
AddSectionWithoutOverrides(d, s, r) ==
    LET text == [v \in Variants |-> [d.text[v] EXCEPT ![s] = r]]
    IN  [d EXCEPT !.built = Variants, !.text = text, !.shown = text[d.selected],
                  !.override = [x \in Sections |-> NoText], !.contact = TRUE]

\* Tailors one section for every variant, then rebuilds the document with
\* format_output, which writes the overrides into the variants.
AddSection(d, s, r) ==
    LET text == [v \in Variants |-> Overlaid([d.text[v] EXCEPT ![s] = r], d.override)]
    IN  [d EXCEPT !.built = Variants, !.text = text, !.shown = text[d.selected],
                  !.contact = TRUE]

Edited(d, e, r) ==
    CASE e.kind = "select"   -> SelectVariant(d, e.arg)
      [] e.kind = "override" -> UpdateSectionOverride(d, e.arg, r)
      [] e.kind = "generate" -> GenerateVariant(d, e.arg, r)
      [] e.kind = "add"      -> AddSection(d, e.arg, r)

--------------------------------------------------------------------------------
Waiting == [phase |-> "waiting"]
Done == [phase |-> "done"]
Loaded(e, d, n) == [phase |-> "loaded", edit |-> e, base |-> d, seen |-> n]

Init ==
    /\ status = "running"
    /\ viewable \in BOOLEAN
    /\ row = EmptyDocument
    /\ request = [r \in Requests |-> Waiting]
    /\ log = <<>>

\* The request loads the row; the endpoints check the lock, and the generate
\* endpoint the status, on what they loaded.
Load(r, e) ==
    /\ request[r].phase = "waiting"
    /\ viewable
    /\ e.kind = "generate" => status = "completed"
    /\ request' = [request EXCEPT ![r] = Loaded(e, row, Len(log))]
    /\ UNCHANGED <<status, viewable, row, log>>

\* The request writes the whole document back.  SQLAlchemy sends no UPDATE for
\* a document equal to the one loaded, which a select can compute; the other
\* edits bring a text of their own.
Save(r) ==
    LET q == request[r]
        d == Edited(q.base, q.edit, r)
        untouched == q.edit.kind = "select" /\ d = q.base
    IN  /\ q.phase = "loaded"
        /\ row' = IF untouched THEN row ELSE d
        /\ log' = IF untouched THEN log
                  ELSE Append(log, [by |-> r, op |-> q.edit, seen |-> q.seen])
        /\ request' = [request EXCEPT ![r] = Done]
        /\ UNCHANGED <<status, viewable>>

\* A language-model call of the request raises: 503, or 500, and nothing is written.
ModelFails(r) ==
    /\ request[r].phase = "loaded"
    /\ request[r].edit.kind \in {"generate", "add"}
    /\ request' = [request EXCEPT ![r] = Done]
    /\ UNCHANGED <<status, viewable, row, log>>

\* execute_run ends: it writes the agent's document without reading the column.
AgentCompletes(v) ==
    /\ status = "running"
    /\ status' = "completed"
    /\ row' = AgentDocument(v)
    /\ log' = Append(log, [by |-> Agent, op |-> [kind |-> "agent", arg |-> v], seen |-> 0])
    /\ UNCHANGED <<viewable, request>>

AgentFails ==
    /\ status = "running"
    /\ status' = "failed"
    /\ UNCHANGED <<viewable, row, request, log>>

\* A payment opens the run; nothing closes it again (Paywall!NeverRelocked).
Unlock ==
    /\ ~viewable
    /\ viewable' = TRUE
    /\ UNCHANGED <<status, row, request, log>>

Next ==
    \/ \E r \in Requests, e \in Edits : Load(r, e)
    \/ \E r \in Requests : Save(r) \/ ModelFails(r)
    \/ \E v \in Variants : AgentCompletes(v)
    \/ AgentFails
    \/ Unlock

Spec == Init /\ [][Next]_vars

--------------------------------------------------------------------------------
Entries == [by : Requests \cup {Agent}, op : Writes, seen : Nat]

RequestStates ==
    [phase : {"waiting", "done"}]
      \cup [phase : {"loaded"}, edit : Edits, base : Document, seen : Nat]

\* Every document, committed or in flight, is well formed, and a request has
\* read a prefix of the history of its row (runs.py, run_editor.py).
TypeOK ==
    /\ status \in {"running", "completed", "failed"}
    /\ viewable \in BOOLEAN
    /\ row \in Document
    /\ request \in [Requests -> RequestStates]
    /\ log \in Seq(Entries)
    /\ \A i \in 1 .. Len(log) : log[i].seen < i
    /\ \A r \in Requests : request[r].phase = "loaded" => request[r].seen <= Len(log)

\* A later one of the first n writes had not read write i: it put back what
\* was there before it.
Raced(i, n) == \E j \in i + 1 .. n : log[j].seen < i

Superseded(i, n) == \E j \in i + 1 .. n : log[j].op = log[i].op

OverridesIn(d, n) ==
    \A i \in 1 .. n : log[i].op.kind = "override" =>
        \/ d.override[log[i].op.arg] = log[i].by
        \/ Superseded(i, n)
        \/ Raced(i, n)

\* A section edit that was answered 200 is the user's text of that section
\* until the user edits the section again, whatever else is selected,
\* generated or added since.  The one way to lose it is a write that had
\* loaded the row before it (run_editor.py:112 and the three other commits).
AcknowledgedOverrideStays == OverridesIn(row, Len(log))

Builds(op) ==
    CASE op.kind = "add" -> Variants
      [] op.kind \in {"generate", "agent"} -> {op.arg}
      [] OTHER -> {}

VariantsIn(d, n) ==
    \A i \in 1 .. n : Builds(log[i].op) \subseteq d.built \/ Raced(i, n)

\* A variant that the agent or a generate request has built stays in the run.
\* The one way to lose it is a write that had loaded the row before it: two
\* Generate buttons pressed together, or an edit begun while the run was
\* still running (run_editor.py:161, run_executor.py:89).
BuiltVariantStays == VariantsIn(row, Len(log))

\* The texts the user typed are the texts shown and exported.
EditedTextIsShown ==
    \A s \in Sections : row.override[s] # NoText => row.shown[s] = row.override[s]

================================================================================
