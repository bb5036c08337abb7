------------------------------ MODULE RenderPass ------------------------------
(***************************************************************************)
(* The render pass of a renderer: what RenderPassBuilderVulkan collects    *)
(* (frontend/vk/render_pass.cpp) and what RenderPass makes of it           *)
(* (backend/vk/render_pass.cpp).  A builder is a sequence of subpasses.    *)
(*                                                                         *)
(* Builders are passed by value, and the subpasses of a copy still point   *)
(* to the builder they were added to: "parent" is that builder, which      *)
(* vk_finalise has not seen.  Attachments are compared by value.           *)
(***************************************************************************)
EXTENDS Integers, Sequences, FiniteSetsExt, Loops

default_colour_attachment == [format |-> "Undefined", final |-> "ColourAttachment"]
default_depth_attachment == [format |-> "DepthFloat32", final |-> "DepthAttachment"]

PassAttachments(pass) ==
  CASE pass = "Colour" -> <<default_colour_attachment>>
    [] pass = "Depth" -> <<default_depth_attachment>>
    [] pass = "ColourDepth" -> <<default_colour_attachment, default_depth_attachment>>

\* RenderPassBuilder::get_attachments: those of all subpasses.
BuilderAttachments(builder) == Flatten([k \in DOMAIN builder |-> builder[k].attachments])

\* A subpass knows how many attachments the builder had before it.
AddPass(builder, pass) ==
  Append(builder, [attachments |-> PassAttachments(pass), offset |-> Len(BuilderAttachments(builder))])

\* Where the last subpass with a colour attachment has its first one.
IsLastColour(builder, k, i) ==
  /\ builder[k].attachments[i].format = "Undefined"
  /\ \A j \in 1 .. i - 1 : builder[k].attachments[j].format # "Undefined"
  /\ \A m \in DOMAIN builder : m > k =>
       \A j \in DOMAIN builder[m].attachments : builder[m].attachments[j].format # "Undefined"

\* Mutant of Finalised: the last colour attachment is not made presentable.
FinalisedFormats(builder, format, headless) ==
  [k \in DOMAIN builder |-> [builder[k] EXCEPT !.attachments =
     [i \in DOMAIN @ |->
        [format |-> IF @[i].format = "Undefined" THEN format ELSE @[i].format,
         final |-> @[i].final]]]]

\* vk_finalise.
Finalised(builder, format, headless) ==
  [k \in DOMAIN builder |-> [builder[k] EXCEPT !.attachments =
     [i \in DOMAIN @ |->
        [format |-> IF @[i].format = "Undefined" THEN format ELSE @[i].format,
         final |-> IF ~IsLastColour(builder, k, i) THEN @[i].final
                   ELSE IF headless THEN "TransferSource" ELSE "Present"]]]]

FirstIndex(seq, e) == Min({i \in DOMAIN seq : seq[i] = e})

\* RenderSubpass::get_attachment_id, counting from 1.
AttachmentId(subpass, parent, attachment) ==
  IF attachment \in Range(subpass.attachments)
    THEN subpass.offset + FirstIndex(subpass.attachments, attachment)
    ELSE FirstIndex(BuilderAttachments(parent), attachment)

\* RenderSubpass::describe: the ids a subpass uses for colour and for depth.
Describe(subpass, parent) ==
  LET all == BuilderAttachments(parent)
      Ids(finals) == LET used == Filter(all, { a \in Range(all) : a.final \in finals })
                     IN [k \in DOMAIN used |-> AttachmentId(subpass, parent, used[k])]
  IN [colours |-> Ids({"Present", "TransferSource", "ColourAttachment"}), depth |-> Ids({"DepthAttachment"})]

\* make_simple_render_pass and vk_create_render_pass.
MakeRenderPass(pass, format, headless) ==
  LET parent == AddPass(<<>>, pass)
      builder == Finalised(parent, format, headless)
  IN [attachments |-> BuilderAttachments(builder),
      subpasses |-> [k \in DOMAIN builder |-> Describe(builder[k], parent)]]

=============================================================================
