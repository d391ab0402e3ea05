----------------------------- MODULE YamlEdit ------------------------------
(***************************************************************************)
(* YamlEditDialog.tsx, as the YAML tab of a drawer uses it, and the server *)
(* it posts to (resource_yaml_actions.go, resourceedit.go).                *)
(*                                                                         *)
(* The dialog starts from the YAML the drawer shows.  A text must have     *)
(* been validated by the server, and the object's name typed, before it    *)
(* can be applied.  Requests are answered in any order; a load of the      *)
(* drawer can replace the YAML under the dialog, which then starts anew,   *)
(* or take the dialog away, while a request is under way.                  *)
(***************************************************************************)
EXTENDS Naturals, FiniteSets

CONSTANTS
  Objects,      \* names of objects of one kind
  None,
  MaxPosts      \* bound: requests of the dialog under way

ASSUME MaxPostsAssumption == MaxPosts \in Nat

VARIABLES
  editor,       \* the dialog, or None
  posts,        \* requests under way
  vetted        \* history: the texts the server validated for this dialog

editVars == <<editor, posts, vetted>>

\* A YAML text: the object it names, and whether it was edited.
Texts == [of : Objects, edited : BOOLEAN]

ASSUME NoneAssumption == None \notin Objects /\ None \notin Texts

Yaml(o) == [of |-> o, edited |-> FALSE]

Editors ==
  [text : Texts, typed : BOOLEAN, validated : Texts \union {None},
   busy : BOOLEAN]

\* "shown": the dialog that posted is still there when the answer comes.
Posts ==
  [action : {"validate", "apply"}, name : Objects, text : Texts,
   shown : BOOLEAN]

EditTypeOK ==
  /\ editor \in Editors \union {None}
  /\ posts \subseteq Posts
  /\ vetted \subseteq Texts

EditInit ==
  /\ editor = None /\ posts = {} /\ vetted = {}

\* The effect that runs when the dialog opens or its YAML changes.
Start(yaml) ==
  /\ editor' = [text |-> yaml, typed |-> FALSE, validated |-> None,
                busy |-> FALSE]
  /\ vetted' = {}

Gone == editor' = None /\ vetted' = {}

\* The dialog goes with the panel; answers to its requests find nobody.
Orphans(ps) == {[p EXCEPT !.shown = FALSE] : p \in ps}

CanApply ==
  /\ editor.validated = editor.text
  /\ editor.typed
  /\ ~editor.busy

OpenEditor(yaml) ==
  /\ editor = None
  /\ Start(yaml)
  /\ UNCHANGED posts

\* While a request is under way the dialog does not close.
CloseEditor ==
  /\ editor # None /\ ~editor.busy
  /\ Gone
  /\ UNCHANGED posts

Type ==
  /\ editor # None
  /\ \/ editor' = [editor EXCEPT !.text.edited = ~@]
     \/ ~editor.typed /\ editor' = [editor EXCEPT !.typed = TRUE]
  /\ UNCHANGED <<posts, vetted>>

\* The text and the name are read when the button is pressed.
Post(action, name) ==
  /\ editor # None /\ ~editor.busy
  /\ Cardinality(posts) < MaxPosts
  /\ action = "apply" => CanApply
  /\ posts' = posts \union
       {[action |-> action, name |-> name, text |-> editor.text,
         shown |-> TRUE]}
  /\ editor' = [editor EXCEPT !.busy = TRUE]
  /\ UNCHANGED vetted

\* validateIdentity.  The server may also refuse a text whose
\* resourceVersion is no longer the object's.
Acceptable(p) == p.text.of = p.name

Reaches(p) == p.shown /\ editor # None

Refused(p) ==
  /\ editor' = IF Reaches(p) THEN [editor EXCEPT !.busy = FALSE] ELSE editor
  /\ posts' = posts \ {p}
  /\ UNCHANGED vetted

\* Mutant: the text in the dialog when the answer comes counts as validated.
Validated_Current(p) ==
  /\ p.action = "validate" /\ Acceptable(p)
  /\ IF Reaches(p)
     THEN /\ editor' = [editor EXCEPT !.busy = FALSE,
                                     !.validated = editor.text]
          /\ vetted' = vetted \union {p.text}
     ELSE UNCHANGED <<editor, vetted>>
  /\ posts' = posts \ {p}

\* What counts as validated is the text that was posted, whatever was typed
\* since.
Validated(p) ==
  /\ p.action = "validate" /\ Acceptable(p)
  /\ IF Reaches(p)
     THEN /\ editor' = [editor EXCEPT !.busy = FALSE, !.validated = p.text]
          /\ vetted' = vetted \union {p.text}
     ELSE UNCHANGED <<editor, vetted>>
  /\ posts' = posts \ {p}

-----------------------------------------------------------------------------
\* A text is never sent to be applied unless the server has validated this
\* very text since the dialog was opened ("require server validation before
\* apply", UI_UX_GUIDE.md), whatever was typed, reloaded or answered late in
\* between.
AppliedWasValidated ==
  [][\A p \in posts' \ posts :
       p.action = "apply" /\ p.shown => p.text \in vetted]_editVars
=============================================================================
