---------------------------- MODULE MCDeviceVulkan ----------------------------
EXTENDS DeviceVulkan

Both == {"VK_KHR_maintenance1", "VK_KHR_swapchain"}

\* A surface as large as its window.
WindowCaps == [currentExtent |-> TRUE, minExtent |-> 0, maxExtent |-> 0,
               minImageCount |-> 2, maxImageCount |-> 3, images |-> {2}]

\* A surface that leaves the extent to the application, within bounds, and
\* whose driver may create one image more than it is asked for.
FreeCaps == [currentExtent |-> FALSE, minExtent |-> 1, maxExtent |-> 1,
             minImageCount |-> 2, maxImageCount |-> 0, images |-> {2, 3}]

PhysicalDevice(families, presents, extensions, formats, modes, caps) ==
  [families |-> families, presents |-> presents, extensions |-> extensions,
   formats |-> formats, modes |-> modes, caps |-> caps]

\* The first device cannot present, the second cannot draw, the third has two
\* families that can and one that only copies.
ThreeDevices ==
  << PhysicalDevice(<<{"Graphics", "Transfer"}>>, {1}, {"VK_KHR_maintenance1"}, <<"other">>, <<"fifo">>, WindowCaps),
     PhysicalDevice(<<{"Compute", "Transfer"}, {"Graphics"}>>, {2}, Both, <<"perfect">>, <<"mailbox">>, WindowCaps),
     PhysicalDevice(<<{"Graphics", "Transfer"}, {"Graphics", "Compute", "Transfer"}, {"Transfer"}>>, {1, 2}, Both,
                    <<"other", "perfect">>, <<"fifo", "mailbox">>, WindowCaps) >>

\* One device, which offers nothing that is preferred.
OneDevice ==
  << PhysicalDevice(<<{"Graphics", "Transfer"}>>, {1}, Both, <<"other", "third">>, <<"fifo", "immediate">>, FreeCaps) >>

\* One device with two families that draw, of which only the first presents.
\* DeviceVulkan chooses the second.
MixedDevice ==
  << PhysicalDevice(<<{"Graphics", "Transfer"}, {"Graphics", "Transfer"}>>, {1}, Both, <<"perfect">>, <<"fifo">>, WindowCaps) >>

MCMachines == {ThreeDevices, OneDevice, MixedDevice}
=============================================================================
