--------------------------- MODULE WattsUpDrivers ---------------------------
(***************************************************************************)
(* The three drivers a Watts Up? energymon can be built with, each the     *)
(* same functions over a tty (wattsup/dev), libftdi or libusb.  This is    *)
(* what wattsup_connect gets step by step, and what ctx_destroy gives back *)
(* when it fails on the way or when the meter is disconnected.             *)
(*                                                                         *)
(* The kernel's own driver for the meter's serial chip is bound to it in   *)
(* most systems.  The tty needs it; the others cannot work next to it.     *)
(* The libftdi driver is the one built with libftdi 1.5 or later, which    *)
(* can be told to reattach the kernel's driver.                            *)
(***************************************************************************)

VARIABLES
  driver,
  bound,            \* the kernel's driver is bound while nobody uses the meter
  kernel,           \* it is bound now
  held,             \* what wattsup_connect has got
  reattach_kernel

link == <<driver, bound, kernel, held, reattach_kernel>>

Drivers == {"dev", "libftdi", "libusb"}
Resources == {"file", "context", "handle", "interface"}

DriverInit ==
  /\ driver \in Drivers /\ bound \in BOOLEAN /\ (driver # "libusb" => bound)
  /\ kernel = bound /\ held = {} /\ reattach_kernel = FALSE

DriverTypeOK ==
  /\ driver \in Drivers /\ bound \in BOOLEAN /\ kernel \in BOOLEAN
  /\ held \subseteq Resources /\ reattach_kernel \in BOOLEAN

Get(resource) == held' = held \cup {resource} /\ UNCHANGED <<driver, bound>>

-----------------------------------------------------------------------------
(* wattsup_connect                                                         *)

(* wattsup_open.                                                           *)
OpenFile ==
  /\ driver = "dev" /\ held = {}
  /\ Get("file") /\ UNCHANGED <<kernel, reattach_kernel>>

(* ftdi_new, libusb_init.                                                  *)
NewContext ==
  /\ driver \in {"libftdi", "libusb"} /\ held = {}
  /\ Get("context") /\ UNCHANGED <<kernel, reattach_kernel>>

(* ftdi_usb_open, told to detach the kernel's driver and to reattach it.   *)
FtdiOpen ==
  /\ driver = "libftdi" /\ held = {"context"}
  /\ Get("handle") /\ kernel' = FALSE /\ UNCHANGED reattach_kernel

UsbOpen ==
  /\ driver = "libusb" /\ held = {"context"}
  /\ Get("handle") /\ UNCHANGED <<kernel, reattach_kernel>>

UsbDetachKernel ==
  /\ driver = "libusb" /\ held = {"context", "handle"} /\ kernel
  /\ kernel' = FALSE /\ reattach_kernel' = TRUE
  /\ UNCHANGED <<driver, bound, held>>

UsbClaim ==
  /\ driver = "libusb" /\ held = {"context", "handle"} /\ ~kernel
  /\ Get("interface") /\ UNCHANGED <<kernel, reattach_kernel>>

ConnectStep ==
  OpenFile \/ NewContext \/ FtdiOpen \/ UsbOpen \/ UsbDetachKernel \/ UsbClaim

(* All that is left of wattsup_connect is to set the line's properties.    *)
Connected ==
  held = CASE driver = "dev" -> {"file"}
           [] driver = "libftdi" -> {"context", "handle"}
           [] driver = "libusb" -> {"context", "handle", "interface"}

-----------------------------------------------------------------------------
(* The libusb driver releases its claim before it reattaches the kernel's  *)
(* driver, which is refused as long as the interface is claimed; and a     *)
(* version that leaves that to libusb_close.                               *)
HeldAtReattachAll == held
HeldAtReattach == held \ {"interface"}

(* ctx_destroy, and the end of dev's wattsup_connect and _disconnect: what *)
(* there is of the file or claim, kernel driver, handle and context.       *)
Destroy ==
  /\ kernel' = CASE driver = "dev" -> kernel
                 [] driver = "libftdi" -> kernel \/ ("handle" \in held /\ bound)
                 [] driver = "libusb" ->
                      kernel \/ (reattach_kernel /\ "interface" \notin HeldAtReattach)
  /\ held' = {} /\ reattach_kernel' = FALSE
  /\ UNCHANGED <<driver, bound>>
=============================================================================
