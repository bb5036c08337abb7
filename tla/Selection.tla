------------------------------ MODULE Selection ------------------------------
(***************************************************************************)
(* How a DeviceVulkan chooses a physical device, a queue family and the    *)
(* properties of its swapchain (hardware/device.cpp, device_filter.cpp,    *)
(* swapchain_selector.cpp, swapchain.cpp and frontend/vk/device.cpp).      *)
(*                                                                         *)
(* A machine is a sequence of physical devices.  One has its queue         *)
(* families, those that can present, its extensions, and what it says of   *)
(* the surface: formats and present modes in the driver's order, the       *)
(* bounds on the image count and, as one number, on the extent.            *)
(***************************************************************************)
EXTENDS Integers, Sequences, FiniteSetsExt, Loops

-----------------------------------------------------------------------------
(* The physical device and its queue family. *)

\* Device::get_queue_families: the types each family supports.  Present is
\* one of them only when there is a surface to ask about.
QueueFamilies(dev, headless) ==
  [i \in DOMAIN dev.families |->
     dev.families[i] \cup (IF ~headless /\ i \in dev.presents THEN {"Present"} ELSE {})]

TypeRequirements == {"Graphics", "Transfer"}

RequiredExtensions(headless) ==
  {"VK_KHR_maintenance1"} \cup (IF headless THEN {} ELSE {"VK_KHR_swapchain"})

SatisfiesQueueFamily(dev, headless) ==
  \E i \in DOMAIN dev.families : TypeRequirements \subseteq QueueFamilies(dev, headless)[i]

SatisfiesExtensions(dev, headless) == RequiredExtensions(headless) \subseteq dev.extensions

\* Mutant of Satisfies: the extensions are not asked for.
SatisfiesQueueOnly(dev, headless) == SatisfiesQueueFamily(dev, headless)

\* DeviceFilterList::satisfies with the two filters of the constructor.
Satisfies(dev, headless) == SatisfiesQueueFamily(dev, headless) /\ SatisfiesExtensions(dev, headless)

\* The devices that filter_all leaves in the list, by their places in it.
FilterAll(machine, headless) == { k \in DOMAIN machine : Satisfies(machine[k], headless) }

ChosenDevice(machine, headless) == machine[Min(FilterAll(machine, headless))]

\* The last family that meets the requirements, which need not present.
ChosenFamily(dev, headless) ==
  Max({i \in DOMAIN dev.families : TypeRequirements \subseteq QueueFamilies(dev, headless)[i]})

-----------------------------------------------------------------------------
(* The swapchain. *)

\* select_swapchain_format with one preference, as a sequence of at most one
\* format.  Every format rates the same, and std::sort may leave equal ones in
\* any order: the order of the driver stands for the one it leaves.
FormatFor(formats, pref) ==
  CASE pref = "Goldilocks" -> Filter(formats, {"perfect"})
    [] pref = "FlexibleGoldilocks" -> formats
    [] pref = "DontCare" -> formats

PresentModeFor(modes, pref) ==
  CASE pref = "PreferTripleBuffering" -> Filter(modes, {"mailbox"})
    [] pref = "DontCare" -> modes

\* The first preference that some format, or present mode, meets.
SelectFormat(formats) ==
  Flatten(<<FormatFor(formats, "Goldilocks"), FormatFor(formats, "FlexibleGoldilocks"),
               FormatFor(formats, "DontCare")>>)[1]

SelectPresentMode(modes) ==
  Flatten(<<PresentModeFor(modes, "PreferTripleBuffering"), PresentModeFor(modes, "DontCare")>>)[1]

\* A maximum of 0 stands for none, which the minimum does not respect.
ImageCount(caps) == Min({caps.minImageCount, caps.maxImageCount})

\* Mutant of FixToExtremes: the maximum is not looked at.
FixToMinimum(caps, extent) == IF extent < caps.minExtent THEN caps.minExtent ELSE extent

FixToExtremes(caps, extent) ==
  IF extent < caps.minExtent THEN caps.minExtent
  ELSE IF extent > caps.maxExtent THEN caps.maxExtent
  ELSE extent

\* Either the surface has the extent of its window, or it leaves it to the
\* application.
RealSwapExtent(caps, size) == IF caps.currentExtent THEN size ELSE FixToExtremes(caps, size)

-----------------------------------------------------------------------------
(* What is asked of the choice, without saying how it is made.             *)

\* What the comments and assertions ask of the one queue: to draw, to copy
\* and, with a window, to present.
QueueNeeds(headless) == TypeRequirements \cup (IF headless THEN {} ELSE {"Present"})

\* dev and fam are the ones a DeviceVulkan needs: no earlier device of the
\* machine would do, and the family has every kind of command.
SuitableChoice(machine, headless, dev, fam) ==
  LET Suits(d, i) == QueueNeeds(headless) \subseteq QueueFamilies(d, headless)[i]
      Usable(d) == /\ RequiredExtensions(headless) \subseteq d.extensions
                   /\ \E i \in DOMAIN d.families : Suits(d, i)
  IN \E k \in DOMAIN machine :
       /\ dev = machine[k] /\ Usable(dev)
       /\ \A j \in 1 .. k - 1 : ~Usable(machine[j])
       /\ fam \in DOMAIN dev.families /\ Suits(dev, fam)

\* A machine on which a queue that draws and copies also presents to the
\* window, if there is one.  The constructor never asks.
DrawersPresent(machine, headless) ==
  \A k \in DOMAIN machine : RequiredExtensions(headless) \subseteq machine[k].extensions =>
    \A i \in DOMAIN machine[k].families :
      TypeRequirements \subseteq machine[k].families[i] => headless \/ i \in machine[k].presents

\* The best of what is offered.
BestOf(best, offered, chosen) ==
  chosen \in Range(offered) /\ (best \in Range(offered) => chosen = best)

\* The distance between two extents.
Distance(a, b) == IF a < b THEN b - a ELSE a - b

\* No extent that the surface allows is nearer to the window's.
NearestExtent(caps, size, extent) ==
  \/ caps.currentExtent /\ extent = size
  \/ /\ ~caps.currentExtent
     /\ extent \in caps.minExtent .. caps.maxExtent
     /\ \A e \in caps.minExtent .. caps.maxExtent : Distance(extent, size) <= Distance(e, size)

=============================================================================
