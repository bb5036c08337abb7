------------------------------- MODULE Library -------------------------------
(***************************************************************************)
(* The life of the library: tz::initialise and tz::terminate (core/tz.cpp) *)
(* with the initialise and terminate of either backend.  What they create  *)
(* depends on what was created before it, so they are taken step by step   *)
(* and "at" says which comes next; GLFW comes with the window, and the     *)
(* messenger comes and goes with the instance.  tz.hpp leaves everything   *)
(* after terminate undefined: there is one life.                           *)
(***************************************************************************)
EXTENDS Integers, Sequences

VARIABLES
  api,          \* the render API the build was made for
  at,
  tz_app_type,  \* the ApplicationType that initialise was given
  initialised,
  glfw,         \* GLFW is initialised
  glfw_window,  \* the GLFWwindow exists
  wnd,          \* what the pointer refers to: nothing, a window, a null one
  inst,         \* the VulkanInstance or OpenGLInstance exists
  def_msg,      \* the default debug messenger exists
  surf          \* the WindowSurface exists

libraryVars == <<api, at, tz_app_type, initialised, glfw, glfw_window, wnd, inst, def_msg, surf>>
backendVars == <<inst, def_msg, surf>>

AppTypes == {"WindowApplication", "HiddenWindowApplication", "Headless"}

LibraryTypeOK ==
  /\ api \in {"vulkan", "opengl"}
  /\ at \in {"start", "instance", "surface", "running", "delete_instance",
             "delete_window", "terminate_glfw", "ended", "exited"}
  /\ tz_app_type \in AppTypes
  /\ wnd \in {"nullptr", "window", "null", "deleted"}
  /\ {initialised, glfw, glfw_window, inst, def_msg, surf} \subseteq BOOLEAN

LibraryInit ==
  /\ api \in {"vulkan", "opengl"}
  /\ at = "start"
  /\ tz_app_type = "WindowApplication"
  /\ wnd = "nullptr"
  /\ initialised = FALSE /\ glfw = FALSE /\ glfw_window = FALSE
  /\ inst = FALSE /\ def_msg = FALSE /\ surf = FALSE

Headless == tz_app_type = "Headless"

LibraryGoto(from, to) == at = from /\ at' = to

-----------------------------------------------------------------------------
(* tz::initialise *)

\* The window, or for a headless Vulkan application the null window.  A
\* headless OpenGL application ends here.
Initialise(app_type) ==
  /\ at = "start"
  /\ at' = IF app_type = "Headless" /\ api = "opengl" THEN "exited" ELSE "instance"
  /\ tz_app_type' = app_type
  /\ glfw' = (app_type # "Headless")
  /\ glfw_window' = (app_type # "Headless")
  /\ wnd' = IF at' = "exited" THEN wnd ELSE IF app_type = "Headless" THEN "null" ELSE "window"
  /\ initialised' = (at' # "exited")
  /\ UNCHANGED <<api, backendVars>>

\* The instance, with the debug messenger of a Vulkan one.
CreateInstance ==
  /\ LibraryGoto("instance", IF api = "vulkan" /\ ~Headless THEN "surface" ELSE "running")
  /\ inst' = TRUE
  /\ def_msg' = (api = "vulkan")
  /\ UNCHANGED <<api, tz_app_type, initialised, glfw, glfw_window, wnd, surf>>

CreateSurface ==
  /\ LibraryGoto("surface", "running")
  /\ surf' = TRUE
  /\ UNCHANGED <<api, tz_app_type, initialised, glfw, glfw_window, wnd, inst, def_msg>>

-----------------------------------------------------------------------------
(* tz::terminate *)

\* Mutant of DeleteSurface: the surface is forgotten.
DeleteSurfaceForgotten ==
  /\ LibraryGoto("running", "delete_instance")
  /\ UNCHANGED <<api, tz_app_type, initialised, glfw, glfw_window, wnd, backendVars>>

\* terminate begins; only the Vulkan backend has a surface to delete.
DeleteSurface ==
  /\ LibraryGoto("running", "delete_instance")
  /\ surf' = FALSE
  /\ UNCHANGED <<api, tz_app_type, initialised, glfw, glfw_window, wnd, inst, def_msg>>

\* The destructor destroys the messenger first.
DeleteInstance ==
  /\ LibraryGoto("delete_instance", "delete_window")
  /\ def_msg' = FALSE
  /\ inst' = FALSE
  /\ UNCHANGED <<api, tz_app_type, initialised, glfw, glfw_window, wnd, surf>>

\* wnd is deleted for a WindowApplication only, and keeps its value.
DeleteWindow ==
  /\ LibraryGoto("delete_window", "terminate_glfw")
  /\ IF tz_app_type = "WindowApplication"
       THEN wnd' = "deleted" /\ glfw_window' = FALSE
       ELSE UNCHANGED <<wnd, glfw_window>>
  /\ UNCHANGED <<api, tz_app_type, initialised, glfw, backendVars>>

\* Mutant of GlfwTerminated: only a visible window calls for glfwTerminate.
GlfwTerminatedVisible == tz_app_type = "WindowApplication"

\* glfwTerminate is called, and destroys the windows that are left.
GlfwTerminated == tz_app_type # "Headless"

TerminateGlfw ==
  /\ LibraryGoto("terminate_glfw", "ended")
  /\ glfw' = (glfw /\ ~GlfwTerminated)
  /\ glfw_window' = (glfw_window /\ ~GlfwTerminated)
  /\ initialised' = FALSE
  /\ UNCHANGED <<api, tz_app_type, wnd, backendVars>>

\* A step of a call of initialise, or of terminate once it has begun.
LibraryStep ==
  \/ CreateInstance
  \/ CreateSurface
  \/ DeleteInstance
  \/ DeleteWindow
  \/ TerminateGlfw

-----------------------------------------------------------------------------
(* Properties *)

\* Nothing outlives what it was created from: a surface has its instance and
\* its window, a messenger its instance, an OpenGL instance the window whose
\* context it uses, a window GLFW (the order in initialise and terminate).
DependenciesOutlive ==
  /\ surf => inst /\ glfw_window
  /\ def_msg => inst
  /\ inst /\ api = "opengl" => glfw_window
  /\ glfw_window => glfw

\* After terminate, whatever the application type, nothing that initialise
\* created is left but the Window object of a hidden or headless application
\* (tz.cpp, terminate).
TerminateUndoes ==
  at = "ended" =>
    /\ ~initialised /\ ~glfw /\ ~glfw_window
    /\ ~inst /\ ~def_msg /\ ~surf

=============================================================================
