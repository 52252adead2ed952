---------------------------- MODULE RunEditorProofs ----------------------------
(***************************************************************************)
(* What a user's edit is worth, for any number of requests, sections and    *)
(* variants: an edit that was answered stays, or a write that had loaded    *)
(* the row before it put the old document back.                             *)
(*                                                                         *)
(* The invariant says the same of every document a request has in hand,     *)
(* about the prefix of the history it had read: that document is what the   *)
(* request's commit makes of the row.                                       *)
(***************************************************************************)
EXTENDS RunEditor, TLAPS

\* What each request has loaded keeps the writes that came before it.
BasesKeep ==
    \A r \in Requests : request[r].phase = "loaded" =>
        /\ OverridesIn(request[r].base, request[r].seen)
        /\ VariantsIn(request[r].base, request[r].seen)

Inv ==
    /\ TypeOK
    /\ AcknowledgedOverrideStays
    /\ BuiltVariantStays
    /\ BasesKeep

--------------------------------------------------------------------------------
(* The documents. *)

\* A document made by an edit is well formed (run_editor.py).
LEMMA EditedIsDocument ==
    ASSUME NEW d \in Document, NEW e \in Edits, NEW r \in Requests
    PROVE  Edited(d, e, r) \in Document
<1> USE EditorAssumption
<1>1. CASE e.kind = "select"
  <2>1. e.arg \in Variants  BY <1>1 DEF Edits
  <2>2. Overlaid(d.text[e.arg], d.override) \in Drafts
    BY <2>1 DEF Overlaid, Document, Drafts, Texts
  <2> QED  BY <1>1, <2>1, <2>2 DEF Edited, SelectVariant, Document
<1>2. CASE e.kind = "override"
  <2>1. e.arg \in Sections  BY <1>2 DEF Edits
  <2>2. [d.text[d.selected] EXCEPT ![e.arg] = r] \in Drafts
    BY <2>1 DEF Document, Drafts, Texts
  <2>3. [d.override EXCEPT ![e.arg] = r] \in [Sections -> Requests \cup {NoText}]
    BY <2>1 DEF Document
  <2> QED  BY <1>2, <2>2, <2>3 DEF Edited, UpdateSectionOverride, Document
<1>3. CASE e.kind = "generate"
  <2>1. e.arg \in Variants  BY <1>3 DEF Edits
  <2> DEFINE draft == [s \in Sections |-> IF s \in Source THEN r ELSE NoText]
  <2>2. draft \in Drafts  BY DEF Drafts, Texts
  <2>3. [d.text EXCEPT ![e.arg] = draft] \in [Variants -> Drafts]
    BY <2>1, <2>2 DEF Document
  <2>4. d.built \cup {e.arg} \in SUBSET Variants  BY <2>1 DEF Document
  <2> QED  BY <1>3, <2>3, <2>4 DEF Edited, GenerateVariant, Document
<1>4. CASE e.kind = "add"
  <2>1. e.arg \in Sections  BY <1>4 DEF Edits
  <2> DEFINE text == [v \in Variants |-> Overlaid([d.text[v] EXCEPT ![e.arg] = r], d.override)]
  <2>2. ASSUME NEW v \in Variants
        PROVE  Overlaid([d.text[v] EXCEPT ![e.arg] = r], d.override) \in Drafts
    <3>1. [d.text[v] EXCEPT ![e.arg] = r] \in Drafts
      BY <2>1 DEF Document, Drafts, Texts
    <3> QED  BY <3>1 DEF Overlaid, Document, Drafts, Texts
  <2>3. text \in [Variants -> Drafts]  BY <2>2
  <2>4. text[d.selected] \in Drafts  BY <2>3 DEF Document
  <2> HIDE DEF text
  <2>5. Edited(d, e, r) = [d EXCEPT !.built = Variants, !.text = text,
                                    !.shown = text[d.selected], !.contact = TRUE]
    BY <1>4 DEF Edited, AddSection, text
  <2> QED  BY <2>3, <2>4, <2>5 DEF Document
<1> QED  BY <1>1, <1>2, <1>3, <1>4 DEF Edits

\* An edit changes no override but the one it writes.
LEMMA EditedOverrides ==
    ASSUME NEW d \in Document, NEW e \in Edits, NEW r \in Requests
    PROVE  Edited(d, e, r).override =
               IF e.kind = "override" THEN [d.override EXCEPT ![e.arg] = r] ELSE d.override
BY DEF Edited, SelectVariant, UpdateSectionOverride, GenerateVariant, AddSection, Edits, Document

\* An edit unbuilds no variant, and builds those it says.
LEMMA EditedVariants ==
    ASSUME NEW d \in Document, NEW e \in Edits, NEW r \in Requests
    PROVE  d.built \cup Builds(e) \subseteq Edited(d, e, r).built
BY DEF Edited, SelectVariant, UpdateSectionOverride, GenerateVariant, AddSection, Edits,
       Document, Builds

--------------------------------------------------------------------------------
(* The history. *)

\* A write appended to the history leaves every prefix of it as it was.
LEMMA HistoryGrows ==
    ASSUME TypeOK, NEW e \in Entries, log' = Append(log, e)
    PROVE  /\ Len(log) \in Nat
           /\ Len(log') = Len(log) + 1
           /\ log'[Len(log) + 1] = e
           /\ \A i \in 1 .. Len(log) : log'[i] = log[i]
BY DEF TypeOK

\* What a document keeps of a prefix it keeps when the history grows.
LEMMA KeptThroughGrowth ==
    ASSUME TypeOK, NEW e \in Entries, log' = Append(log, e),
           NEW d \in Document, NEW n \in 0 .. Len(log)
    PROVE  /\ OverridesIn(d, n) => OverridesIn(d, n)'
           /\ VariantsIn(d, n) => VariantsIn(d, n)'
<1>1. /\ Len(log) \in Nat
      /\ \A i \in 1 .. n : log'[i] = log[i]
      /\ \A i \in 1 .. n : \A j \in i + 1 .. n : log'[j] = log[j]
  BY HistoryGrows
<1>2. \A i \in 1 .. n : Raced(i, n) => Raced(i, n)'
  BY <1>1 DEF Raced
<1>3. \A i \in 1 .. n : Superseded(i, n) => Superseded(i, n)'
  BY <1>1 DEF Superseded
<1>4. OverridesIn(d, n) => OverridesIn(d, n)'
  BY <1>1, <1>2, <1>3 DEF OverridesIn
<1>5. VariantsIn(d, n) => VariantsIn(d, n)'
  BY <1>1, <1>2 DEF VariantsIn
<1> QED  BY <1>4, <1>5

\* A write that had read the first n writes keeps what they made, and its own;
\* the writes after them it has raced.
LEMMA WriteKeeps ==
    ASSUME TypeOK, NEW n \in 0 .. Len(log), NEW b \in Document, NEW d \in Document,
           NEW e \in Entries, e.seen = n, log' = Append(log, e),
           OverridesIn(b, n), VariantsIn(b, n),
           n # 0 =>
             /\ d.override = IF e.op.kind = "override"
                             THEN [b.override EXCEPT ![e.op.arg] = e.by] ELSE b.override
             /\ b.built \subseteq d.built,
           e.op.kind = "override" => e.op.arg \in Sections /\ d.override[e.op.arg] = e.by,
           Builds(e.op) \subseteq d.built
    PROVE  OverridesIn(d, Len(log))' /\ VariantsIn(d, Len(log))'
<1>0. PICK m \in Nat : m = Len(log) + 1  BY HistoryGrows
<1>1. /\ Len(log) \in Nat
      /\ m = Len(log) + 1
      /\ Len(log') = m
      /\ log'[m] = e
      /\ \A i \in 1 .. Len(log) : log'[i] = log[i]
  BY <1>0, HistoryGrows
<1>2. ASSUME NEW i \in n + 1 .. Len(log)  PROVE Raced(i, m)'
  BY <1>1 DEF Raced
<1>3. ASSUME NEW i \in 1 .. n, Raced(i, n)  PROVE Raced(i, m)'
  <2>1. PICK j \in i + 1 .. n : log[j].seen < i  BY <1>3 DEF Raced
  <2>2. j \in 1 .. Len(log) /\ j \in i + 1 .. m  BY <1>1
  <2> QED  BY <1>1, <2>1, <2>2 DEF Raced
<1>4. ASSUME NEW i \in 1 .. n, Superseded(i, n)  PROVE Superseded(i, m)'
  <2>1. PICK j \in i + 1 .. n : log[j].op = log[i].op  BY <1>4 DEF Superseded
  <2>2. j \in 1 .. Len(log) /\ i \in 1 .. Len(log) /\ j \in i + 1 .. m  BY <1>1
  <2> QED  BY <1>1, <2>1, <2>2 DEF Superseded
<1>5. ASSUME NEW i \in 1 .. m, log'[i].op.kind = "override"
      PROVE  \/ d.override[log'[i].op.arg] = log'[i].by
             \/ Superseded(i, m)'
             \/ Raced(i, m)'
  <2>1. CASE i = m  BY <1>1, <1>5, <2>1
  <2>2. CASE i \in n + 1 .. Len(log)  BY <1>2, <2>2
  <2>3. CASE i \in 1 .. n
    <3>1. /\ log'[i] = log[i] /\ n # 0
      BY <1>1, <2>3
    <3>2. \/ b.override[log[i].op.arg] = log[i].by
          \/ Superseded(i, n)
          \/ Raced(i, n)
      BY <1>5, <2>3, <3>1 DEF OverridesIn
    <3>3. CASE Superseded(i, n) \/ Raced(i, n)
      BY <1>3, <1>4, <2>3, <3>3
    <3>4. CASE b.override[log[i].op.arg] = log[i].by
      <4>1. CASE e.op = log[i].op
        <5>1. m \in i + 1 .. m  BY <1>1, <2>3
        <5> QED  BY <1>1, <3>1, <4>1, <5>1 DEF Superseded
      <4>2. CASE e.op # log[i].op
        <5>1. log[i] \in Entries  BY <1>1, <2>3 DEF TypeOK
        <5>2. e.op.kind = "override" => e.op.arg # log[i].op.arg
          BY <1>5, <3>1, <4>2, <5>1 DEF Entries, Writes, Edits
        <5>3. log[i].op.arg \in Sections
          BY <1>5, <3>1, <5>1 DEF Entries, Writes, Edits
        <5>4. d.override[log[i].op.arg] = b.override[log[i].op.arg]
          BY <3>1, <5>2, <5>3 DEF Document
        <5> QED  BY <3>1, <3>4, <5>4
      <4> QED  BY <4>1, <4>2
    <3> QED  BY <3>2, <3>3, <3>4
  <2> QED  BY <1>1, <2>1, <2>2, <2>3
<1>6. ASSUME NEW i \in 1 .. m
      PROVE  Builds(log'[i].op) \subseteq d.built \/ Raced(i, m)'
  <2>1. CASE i = m  BY <1>1, <2>1
  <2>2. CASE i \in n + 1 .. Len(log)  BY <1>2, <2>2
  <2>3. CASE i \in 1 .. n
    <3>1. /\ log'[i] = log[i] /\ n # 0
      BY <1>1, <2>3
    <3>2. Builds(log[i].op) \subseteq b.built \/ Raced(i, n)
      BY <2>3 DEF VariantsIn
    <3> QED  BY <1>3, <2>3, <3>1, <3>2
  <2> QED  BY <1>1, <2>1, <2>2, <2>3
<1>7. OverridesIn(d, m)'  BY <1>5 DEF OverridesIn
<1>8. VariantsIn(d, m)'  BY <1>6 DEF VariantsIn
<1> QED  BY <1>1, <1>7, <1>8 DEF OverridesIn, VariantsIn, Raced, Superseded
--------------------------------------------------------------------------------
(* One lemma per action. *)

LEMMA InitialInvariant == Init => Inv
<1> SUFFICES ASSUME Init  PROVE Inv
  OBVIOUS
<1> USE EditorAssumption DEF Init
<1>1. EmptyDocument \in Document
  BY DEF EmptyDocument, Document, Drafts, Texts
<1>2. request \in [Requests -> RequestStates]
  BY DEF RequestStates, Waiting
<1>3. TypeOK
  BY <1>1, <1>2 DEF TypeOK, Waiting
<1>4. Len(log) = 0
  OBVIOUS
<1>5. AcknowledgedOverrideStays /\ BuiltVariantStays
  BY <1>4 DEF AcknowledgedOverrideStays, BuiltVariantStays, OverridesIn, VariantsIn
<1>6. BasesKeep
  BY DEF BasesKeep, Waiting
<1> QED  BY <1>3, <1>5, <1>6 DEF Inv

\* A request that loads the row has in hand what the row keeps.
LEMMA LoadStep ==
    ASSUME Inv, NEW r \in Requests, NEW e \in Edits, Load(r, e)
    PROVE  Inv'
<1> USE DEF Load, Inv
<1>1. Len(log) \in Nat  BY DEF TypeOK
<1>2. Loaded(e, row, Len(log)) \in RequestStates
  BY <1>1 DEF TypeOK, Loaded, RequestStates
<1>3. TypeOK'
  BY <1>1, <1>2 DEF TypeOK, Loaded
<1>4. AcknowledgedOverrideStays' /\ BuiltVariantStays'
  BY DEF AcknowledgedOverrideStays, BuiltVariantStays, OverridesIn, VariantsIn, Raced, Superseded
<1>5. ASSUME NEW q \in Requests, request'[q].phase = "loaded"
      PROVE  /\ OverridesIn(request'[q].base, request'[q].seen)
             /\ VariantsIn(request'[q].base, request'[q].seen)
  <2>1. CASE q = r
    BY <2>1 DEF TypeOK, Loaded, AcknowledgedOverrideStays, BuiltVariantStays
  <2>2. CASE q # r
    BY <1>5, <2>2 DEF TypeOK, BasesKeep
  <2> QED  BY <2>1, <2>2
<1>6. BasesKeep'
  BY <1>5 DEF BasesKeep, OverridesIn, VariantsIn, Raced, Superseded
<1> QED  BY <1>3, <1>4, <1>6

\* Documents in hand keep what they kept when the history grows.
LEMMA BasesThroughGrowth ==
    ASSUME Inv, NEW e \in Entries, log' = Append(log, e),
           \A q \in Requests : request'[q].phase = "loaded" => request'[q] = request[q]
    PROVE  BasesKeep'
<1> USE DEF Inv
<1> SUFFICES ASSUME NEW q \in Requests, request'[q].phase = "loaded"
             PROVE  /\ OverridesIn(request[q].base, request[q].seen)'
                    /\ VariantsIn(request[q].base, request[q].seen)'
  BY DEF BasesKeep
<1>1. /\ request'[q] = request[q]
      /\ request[q].phase = "loaded"
      /\ request[q] \in RequestStates
  BY DEF TypeOK
<1>2. /\ request[q].base \in Document
      /\ request[q].seen \in 0 .. Len(log)
  BY <1>1 DEF TypeOK, RequestStates
<1>3. PICK d \in Document, n \in 0 .. Len(log) : d = request[q].base /\ n = request[q].seen
  BY <1>2
<1>4. OverridesIn(d, n) /\ VariantsIn(d, n)
  BY <1>1, <1>3 DEF BasesKeep
<1>5. OverridesIn(d, n)' /\ VariantsIn(d, n)'
  BY <1>4, KeptThroughGrowth
<1> QED  BY <1>1, <1>3, <1>5 DEF OverridesIn, VariantsIn, Raced, Superseded

\* A request that is answered writes what it had in hand, edited.
LEMMA SaveStep ==
    ASSUME Inv, NEW r \in Requests, Save(r)
    PROVE  Inv'
<1> USE DEF Inv
<1>1. /\ request[r].phase = "loaded"
      /\ request[r] \in RequestStates
      /\ request' = [request EXCEPT ![r] = Done]
      /\ UNCHANGED <<status, viewable>>
  BY DEF TypeOK, Save
<1>2. /\ request[r].base \in Document
      /\ request[r].edit \in Edits
      /\ request[r].seen \in 0 .. Len(log)
  BY <1>1 DEF TypeOK, RequestStates
<1>3. PICK b \in Document, e \in Edits, n \in 0 .. Len(log) :
             b = request[r].base /\ e = request[r].edit /\ n = request[r].seen
  BY <1>2
<1>4. request' \in [Requests -> RequestStates]
  BY <1>1 DEF TypeOK, RequestStates, Done
<1>5. \A q \in Requests : request'[q].phase = "loaded" => request'[q] = request[q]
  BY <1>1 DEF TypeOK, Done
<1>6. CASE row' = row /\ log' = log
  <2>1. TypeOK'  BY <1>1, <1>4, <1>5, <1>6 DEF TypeOK
  <2>2. AcknowledgedOverrideStays' /\ BuiltVariantStays'
    BY <1>6 DEF AcknowledgedOverrideStays, BuiltVariantStays, OverridesIn, VariantsIn,
                Raced, Superseded
  <2>3. BasesKeep'
    BY <1>5, <1>6 DEF BasesKeep, OverridesIn, VariantsIn, Raced, Superseded
  <2> QED  BY <2>1, <2>2, <2>3
<1>7. CASE /\ row' = Edited(b, e, r)
           /\ log' = Append(log, [by |-> r, op |-> e, seen |-> n])
  <2>1. PICK d \in Document : d = Edited(b, e, r)
    BY EditedIsDocument
  <2>2. PICK w \in Entries : w = [by |-> r, op |-> e, seen |-> n]
    <3>1. e \in Writes  BY DEF Writes
    <3>2. n \in Nat  BY DEF TypeOK
    <3> QED  BY <3>1, <3>2 DEF Entries
  <2>3. OverridesIn(b, n) /\ VariantsIn(b, n)
    BY <1>1, <1>3 DEF BasesKeep
  <2>4. d.override = IF e.kind = "override" THEN [b.override EXCEPT ![e.arg] = r]
                     ELSE b.override
    BY <2>1, EditedOverrides
  <2>5. b.built \cup Builds(e) \subseteq d.built
    BY <2>1, EditedVariants
  <2>6. e.kind = "override" => e.arg \in Sections /\ d.override[e.arg] = r
    BY <2>4 DEF Edits, Document
  <2>7. OverridesIn(d, Len(log))' /\ VariantsIn(d, Len(log))'
    <3>1. w.op = e /\ w.by = r /\ w.seen = n /\ log' = Append(log, w)
      BY <1>7, <2>2
    <3>2. /\ d.override = IF w.op.kind = "override"
                          THEN [b.override EXCEPT ![w.op.arg] = w.by] ELSE b.override
          /\ w.op.kind = "override" => w.op.arg \in Sections /\ d.override[w.op.arg] = w.by
          /\ b.built \subseteq d.built
          /\ Builds(w.op) \subseteq d.built
      BY <2>4, <2>5, <2>6, <3>1
    <3> HIDE DEF Inv
    <3>3. TypeOK  BY DEF Inv
    <3> QED  BY <2>3, <3>1, <3>2, <3>3, WriteKeeps
  <2>8. AcknowledgedOverrideStays' /\ BuiltVariantStays'
    BY <1>7, <2>1, <2>7 DEF AcknowledgedOverrideStays, BuiltVariantStays, OverridesIn,
                            VariantsIn, Raced, Superseded
  <2>9. BasesKeep'
    BY <1>5, <1>7, <2>2, BasesThroughGrowth
  <2>10. TypeOK'
    <3>1. /\ Len(log) \in Nat
          /\ Len(log') = Len(log) + 1
          /\ log'[Len(log) + 1] = w
          /\ \A i \in 1 .. Len(log) : log'[i] = log[i]
      BY <1>7, <2>2, HistoryGrows
    <3>2. log' \in Seq(Entries)
      BY <1>7, <2>2 DEF TypeOK
    <3>3. \A i \in 1 .. Len(log') : log'[i].seen < i
      BY <2>2, <3>1 DEF TypeOK
    <3>4. \A q \in Requests : request'[q].phase = "loaded" => request'[q].seen <= Len(log')
      <4> SUFFICES ASSUME NEW q \in Requests, request'[q].phase = "loaded"
                   PROVE  request'[q].seen <= Len(log')
        OBVIOUS
      <4>1. request[q] = request'[q] /\ request[q] \in RequestStates
        BY <1>5 DEF TypeOK
      <4>2. request[q].seen \in Nat /\ request[q].seen <= Len(log)
        BY <4>1 DEF TypeOK, RequestStates
      <4> QED  BY <3>1, <4>1, <4>2
    <3> QED  BY <1>1, <1>4, <1>7, <2>1, <3>2, <3>3, <3>4 DEF TypeOK
  <2> QED  BY <2>8, <2>9, <2>10
<1> QED  BY <1>3, <1>6, <1>7 DEF Save

\* The executor's write has read nothing: every write before it is raced.
LEMMA AgentCompletesStep ==
    ASSUME Inv, NEW v \in Variants, AgentCompletes(v)
    PROVE  Inv'
<1> USE DEF Inv
<1>1. PICK d \in Document : d = AgentDocument(v)
  <2> DEFINE drafts == [s \in Sections |-> IF s \in Source THEN Agent ELSE NoText]
             blank == [s \in Sections |-> NoText]
  <2>1. drafts \in Drafts /\ blank \in Drafts
    BY DEF Drafts, Texts
  <2>2. [[x \in Variants |-> blank] EXCEPT ![v] = drafts] \in [Variants -> Drafts]
    BY <2>1
  <2>3. AgentDocument(v) =
            [built |-> {v}, text |-> [[x \in Variants |-> blank] EXCEPT ![v] = drafts],
             selected |-> v, override |-> blank, shown |-> drafts, contact |-> TRUE]
    BY DEF AgentDocument, EmptyDocument
  <2>4. blank \in [Sections -> Requests \cup {NoText}]
    OBVIOUS
  <2> HIDE DEF drafts, blank
  <2>5. AgentDocument(v) \in Document
    BY <2>1, <2>2, <2>3, <2>4 DEF Document
  <2> QED  BY <2>5
<1>2. PICK w \in Entries : w = [by |-> Agent, op |-> [kind |-> "agent", arg |-> v], seen |-> 0]
  BY DEF Entries, Writes
<1>3. /\ row' = d
      /\ log' = Append(log, w)
      /\ status' = "completed"
      /\ UNCHANGED <<viewable, request>>
  BY <1>1, <1>2 DEF AgentCompletes
<1>4. PICK n \in 0 .. Len(log) : n = 0
  BY DEF TypeOK
<1>5. OverridesIn(d, n) /\ VariantsIn(d, n)
  BY <1>4 DEF OverridesIn, VariantsIn
<1>6. Builds(w.op) \subseteq d.built
  BY <1>1, <1>2 DEF Builds, AgentDocument, EmptyDocument
<1>7. OverridesIn(d, Len(log))' /\ VariantsIn(d, Len(log))'
  <2>1. /\ w.seen = n
        /\ w.op.kind # "override"
        /\ n = 0
    BY <1>2, <1>4
  <2> HIDE DEF Inv
  <2>2. TypeOK  BY DEF Inv
  <2> QED  BY <1>3, <1>5, <1>6, <2>1, <2>2, WriteKeeps
<1>8. AcknowledgedOverrideStays' /\ BuiltVariantStays'
  BY <1>3, <1>7 DEF AcknowledgedOverrideStays, BuiltVariantStays, OverridesIn, VariantsIn,
                    Raced, Superseded
<1>9. BasesKeep'
  BY <1>3, BasesThroughGrowth
<1>10. TypeOK'
  <2>1. /\ Len(log) \in Nat
        /\ Len(log') = Len(log) + 1
        /\ log'[Len(log) + 1] = w
        /\ \A i \in 1 .. Len(log) : log'[i] = log[i]
    BY <1>3, HistoryGrows
  <2>2. log' \in Seq(Entries)
    BY <1>3 DEF TypeOK
  <2>3. \A i \in 1 .. Len(log') : log'[i].seen < i
    BY <1>2, <2>1 DEF TypeOK
  <2>4. \A q \in Requests : request'[q].phase = "loaded" => request'[q].seen <= Len(log')
    BY <1>3, <2>1 DEF TypeOK, RequestStates
  <2> QED  BY <1>3, <2>2, <2>3, <2>4 DEF TypeOK
<1> QED  BY <1>8, <1>9, <1>10

\* The other actions write neither the row nor its history.
LEMMA QuietStep ==
    ASSUME Inv,
           \/ \E r \in Requests : ModelFails(r)
           \/ AgentFails
           \/ Unlock
           \/ UNCHANGED vars
    PROVE  Inv'
<1> USE DEF Inv
<1>1. row' = row /\ log' = log
  BY DEF ModelFails, AgentFails, Unlock, vars
<1>2. /\ request' \in [Requests -> RequestStates]
      /\ \A q \in Requests : request'[q].phase = "loaded" => request'[q] = request[q]
  BY DEF ModelFails, AgentFails, Unlock, vars, TypeOK, RequestStates, Done
<1>3. TypeOK'
  BY <1>1, <1>2 DEF TypeOK, ModelFails, AgentFails, Unlock, vars
<1>4. AcknowledgedOverrideStays' /\ BuiltVariantStays'
  BY <1>1 DEF AcknowledgedOverrideStays, BuiltVariantStays, OverridesIn, VariantsIn, Raced,
              Superseded
<1>5. BasesKeep'
  BY <1>1, <1>2 DEF BasesKeep, OverridesIn, VariantsIn, Raced, Superseded
<1> QED  BY <1>3, <1>4, <1>5

--------------------------------------------------------------------------------
\* The invariant holds in every state, for any number of requests.
THEOREM EditorInvariance == Spec => []Inv
<1>1. Init => Inv
  BY InitialInvariant
<1>2. Inv /\ [Next]_vars => Inv'
  <2> SUFFICES ASSUME Inv, [Next]_vars  PROVE Inv'
    OBVIOUS
  <2>1. ASSUME NEW r \in Requests, NEW e \in Edits, Load(r, e)  PROVE Inv'
    BY <2>1, LoadStep
  <2>2. ASSUME NEW r \in Requests, Save(r)  PROVE Inv'
    BY <2>2, SaveStep
  <2>3. ASSUME NEW v \in Variants, AgentCompletes(v)  PROVE Inv'
    BY <2>3, AgentCompletesStep
  <2>4. CASE (\E r \in Requests : ModelFails(r)) \/ AgentFails \/ Unlock \/ UNCHANGED vars
    BY <2>4, QuietStep
  <2> QED  BY <2>1, <2>2, <2>3, <2>4 DEF Next
<1> QED  BY <1>1, <1>2, PTL DEF Spec

\* Every document, committed or in a request's hands, is well formed, and no
\* request has read a history that does not exist.
THEOREM EditorTypes == Spec => []TypeOK
<1>1. Inv => TypeOK  BY DEF Inv
<1> QED  BY <1>1, EditorInvariance, PTL

\* A section edit answered 200 is lost only to a write that had loaded the row
\* before it (run_editor.py:112).
THEOREM OverridesStay == Spec => []AcknowledgedOverrideStays
<1>1. Inv => AcknowledgedOverrideStays  BY DEF Inv
<1> QED  BY <1>1, EditorInvariance, PTL

\* A built variant is lost only to a write that had loaded the row before it
\* (run_editor.py:161).
THEOREM VariantsStay == Spec => []BuiltVariantStays
<1>1. Inv => BuiltVariantStays  BY DEF Inv
<1> QED  BY <1>1, EditorInvariance, PTL
================================================================================
