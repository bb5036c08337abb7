----------------------------- MODULE UploadSetup -----------------------------
(***************************************************************************)
(* Upload, which copies a renderer's data to the device job by job, as an  *)
(* implementation of RendererSetup, where the constructor is one step.     *)
(***************************************************************************)
EXTENDS Upload

\* To the application the constructor is one step.
Setup == INSTANCE RendererSetup WITH
  resources <- IF built THEN resources ELSE <<>>,
  bound <- IF built THEN bound ELSE <<>>,
  memory <- IF built THEN memory ELSE [a \in Accesses |-> [vertices |-> <<>>, indices |-> <<>>]],
  edits <- IF built THEN edits ELSE <<>>,
  overrun <- built /\ overrun

\* Constructors with copies in flight implement RendererSetup: a renderer
\* appears in one step, with its data in place.
ImplementsSetup == Setup!Spec

=============================================================================
