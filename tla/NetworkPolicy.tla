----------------------------- MODULE NetworkPolicy -----------------------------
(***************************************************************************)
(* CReporterNwSessionMgr::canUseNetworkConnection(): whether the program   *)
(* may upload on its own with the network there is.                        *)
(***************************************************************************)
EXTENDS PowerSaving

(* The default configuration, and what usb_moded says.                     *)
Network == [bearer : {"wlan", "ethernet", "mobile"}, active : BOOLEAN,
            usbModed : BOOLEAN, mode : {"developer", "other"}]

DeveloperModeIsActive(n) == n.usbModed /\ n.mode = "developer"

\* Without a connection there may still be the USB cable.
OverUsb(n) == ~n.active /\ DeveloperModeIsActive(n)

CanUseNetworkConnection(n, allowMobileData) ==
  \/ allowMobileData
  \/ n.bearer \in {"wlan", "ethernet"}
  \/ OverUsb(n)

(* What uploadFiles() asks for a caller that obeys restrictions.           *)
Restricted(n, allowMobileData, b, r) ==
  ~CanUseNetworkConnection(n, allowMobileData) \/ ShouldSavePower(b, r)

(* The answers there may be, with any network, battery and settings.       *)
Answers == {Restricted(n, m, b, r) :
              n \in Network, m \in BOOLEAN, b \in Battery, r \in Restrictions}
=============================================================================
