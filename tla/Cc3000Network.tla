--------------------------- MODULE Cc3000Network ---------------------------
(* Joining a network with the CC3000 library: the state of the              *)
(* Adafruit_CC3000 class and the flags its event callback sets, the         *)
(* commands of wlan.cpp and netapp.cpp its operations are made of, and the  *)
(* device's station. A command and its answer are one step; a command to a  *)
(* device that is switched off never returns.                               *)
EXTENDS Naturals, Sequences

CONSTANTS
  MaxWait,     \* rounds of a waiting loop: WLAN_CONNECT_TIMEOUT / 10
  MaxLosses    \* bound: times the device loses the access point

VARIABLES
  pc,             \* where the program is
  initialised,    \* _initialised
  connected,      \* ulCC3000Connected
  dhcp,           \* ulCC3000DHCP
  smartFinished,  \* ulSmartConfigFinished
  waited,         \* timeout or timer of the waiting loop
  keyFits,        \* the key of connectToAP() is at most MAXLENGTHKEY long
  device,         \* [on, link, address, auto, profile, smart]
  events,         \* events on their way to the host
  losses,         \* ghost: times the access point was lost
  unreported      \* ghost: flags that changed on one side without an event

flags == <<connected, dhcp, smartFinished>>
program == <<pc, initialised, waited, keyFits>>
vars == <<program, flags, device, events, losses, unreported>>

-----------------------------------------------------------------------------
(* The device *)

Sends(e) == events' = Append(events, e)
DeviceStep(changed) ==
  /\ device.on /\ Len(events) < 2 /\ device' = changed
  /\ UNCHANGED <<program, flags>>

Joins ==
  /\ device.link = "joining" /\ Sends("CONNECT")
  /\ DeviceStep([device EXCEPT !.link = "up"]) /\ UNCHANGED <<losses, unreported>>

JoinFails ==
  /\ device.link = "joining" /\ UNCHANGED <<events, losses, unreported>>
  /\ DeviceStep([device EXCEPT !.link = "down"])

\* With the policy to use profiles the device joins by itself.
AutoJoins ==
  /\ device.link = "down" /\ device.auto /\ device.profile /\ device.smart = "off"
  /\ DeviceStep([device EXCEPT !.link = "joining"])
  /\ UNCHANGED <<events, losses, unreported>>

\* The event comes whether or not the device got an address.
ReportsAddress ==
  /\ device.link = "up" /\ ~device.address /\ Sends("DHCP")
  /\ DeviceStep([device EXCEPT !.address = TRUE]) /\ UNCHANGED <<losses, unreported>>

Loses ==
  /\ device.link = "leaving" \/ (device.link = "up" /\ losses < MaxLosses)
  /\ Sends("DISCONNECT")
  /\ losses' = IF device.link = "up" THEN losses + 1 ELSE losses
  /\ DeviceStep([device EXCEPT !.link = "down", !.address = FALSE]) /\ UNCHANGED unreported

SmartConfigDone ==
  /\ device.smart = "running" /\ Sends("SIMPLE_CONFIG_DONE")
  /\ DeviceStep([device EXCEPT !.smart = "off", !.profile = TRUE])
  /\ UNCHANGED <<losses, unreported>>

Device ==
  \/ Joins \/ JoinFails \/ AutoJoins \/ ReportsAddress \/ Loses
  \/ SmartConfigDone

\* Mutant: the address is still taken as valid after the link is gone.
CallbackKeepsDhcp ==
  /\ events # <<>> /\ events' = Tail(events)
  /\ LET e == Head(events)
     IN /\ smartFinished' = (smartFinished \/ e = "SIMPLE_CONFIG_DONE")
        /\ connected' = IF e = "CONNECT" THEN TRUE
                        ELSE IF e = "DISCONNECT" THEN FALSE ELSE connected
        /\ dhcp' = IF e = "DHCP" THEN TRUE ELSE dhcp
        /\ unreported' = unreported
  /\ UNCHANGED <<program, device, losses>>

\* CC3000_UsynchCallback, in the interrupt.
CC3000_UsynchCallback ==
  /\ events # <<>> /\ events' = Tail(events)
  /\ LET e == Head(events)
     IN /\ smartFinished' = (smartFinished \/ e = "SIMPLE_CONFIG_DONE")
        /\ connected' = CASE e = "CONNECT" -> TRUE
                          [] e = "DISCONNECT" -> FALSE [] OTHER -> connected
        /\ dhcp' = CASE e = "DHCP" -> TRUE [] e = "DISCONNECT" -> FALSE [] OTHER -> dhcp
        /\ unreported' = unreported \ CASE e = "CONNECT" -> {"connected"}
                                        [] e = "DHCP" -> {"dhcp"}
                                        [] e = "DISCONNECT" -> {"connected", "dhcp"}
                                        [] OTHER -> {}
  /\ UNCHANGED <<program, device, losses>>

-----------------------------------------------------------------------------
(* Commands: wlan.cpp, netapp.cpp, nvmem.cpp, security.cpp *)

wlan_ioctl_set_connection_policy(useProfiles) == [device EXCEPT !.auto = useProfiles]
wlan_ioctl_del_profile == [device EXCEPT !.profile = FALSE]
wlan_add_profile == [device EXCEPT !.profile = TRUE]
wlan_connect == [device EXCEPT !.link = IF @ = "down" THEN "joining" ELSE @]
wlan_disconnect ==
  [device EXCEPT !.link = IF @ \in {"up", "leaving"} THEN "leaving" ELSE "down"]
wlan_smart_config_start == [device EXCEPT !.smart = "running"]

\* Commands whose effects nothing here depends on.
wlan_ioctl_set_scan_params == device
wlan_set_event_mask == device
wlan_smart_config_set_prefix == device
mdnsAdvertiser == device
netapp_config_mac_adrress == device
nvmem_create_entry == device
aes_write_key == device

\* The program exchanges a command and goes on, differently if it failed.
Exchange(from, effect, to, otherwise) ==
  /\ pc = from /\ device.on
  /\ \/ device' = effect /\ pc' = to
     \/ UNCHANGED device /\ pc' = otherwise
  /\ UNCHANGED <<initialised, waited, keyFits, flags, events, losses, unreported>>

\* A command whose result is ignored, one wrapped in CHECK_SUCCESS, and the last one.
Command(from, effect, to) == Exchange(from, effect, to, to)
Checked(from, effect, to) == Exchange(from, effect, to, "false")

\* Switching the device off tells the host nothing about the link.
PowerOff(from, to) ==
  /\ pc = from /\ pc' = to
  /\ device' = [device EXCEPT !.on = FALSE, !.link = "down", !.address = FALSE,
                              !.smart = "off"]
  /\ events' = <<>>
  /\ unreported' = (IF connected THEN {"connected"} ELSE {}) \cup (IF dhcp THEN {"dhcp"} ELSE {})
  /\ UNCHANGED <<initialised, waited, keyFits, flags, losses>>

wlan_stop(from, to) == PowerOff(from, to)

\* The power pin is driven low, whatever the device was doing.
init_spi(from, to) == PowerOff(from, to)

\* A device that is on already never moves its line as wlan_start() expects.
wlan_start(from, to) ==
  /\ pc = from /\ pc' = to
  /\ ~device.on /\ device' = [device EXCEPT !.on = TRUE]
  /\ UNCHANGED <<initialised, waited, keyFits, flags, events, losses, unreported>>

Go(from, to) ==
  /\ pc = from /\ pc' = to
  /\ UNCHANGED <<initialised, waited, keyFits, flags, device, events, losses, unreported>>

\* Mutant: the rounds are not counted.
WaitUncounted(from, until, to, tooLate) ==
  /\ pc = from
  /\ pc' = (IF until THEN to ELSE from) /\ waited' = 0
  /\ UNCHANGED <<initialised, keyFits, flags, device, events, losses, unreported>>

Wait(from, until, to, tooLate) ==
  /\ pc = from
  /\ IF until THEN pc' = to /\ waited' = 0
     ELSE IF waited < MaxWait THEN pc' = from /\ waited' = waited + 1
     ELSE pc' = tooLate /\ waited' = 0
  /\ UNCHANGED <<initialised, keyFits, flags, device, events, losses, unreported>>

Return == pc \in {"true", "false"} /\ Go(pc, "idle")

Call(to) == initialised /\ Go("idle", to)

-----------------------------------------------------------------------------
(* begin(): a call after one that failed finds the device switched on.      *)

begin ==
  \/ ~initialised /\ \E with \in {"begin", "beginSmart"} : Go("idle", with)
  \/ init_spi("begin", "beginStart") \/ wlan_start("beginStart", "policy")
  \/ Command("policy", wlan_ioctl_set_connection_policy(FALSE), "delete")
  \/ Command("delete", wlan_ioctl_del_profile, "mask")
  \/ init_spi("beginSmart", "smartBeginStart") \/ wlan_start("smartBeginStart", "smartPolicy")
  \/ Command("smartPolicy", wlan_ioctl_set_connection_policy(TRUE), "smartMask")
  \/ Checked("mask", wlan_set_event_mask, "began")
  \/ Checked("smartMask", wlan_set_event_mask, "smartBegan")

beginDone ==
  /\ \/ pc = "began" /\ pc' = "true"
     \/ pc = "smartBegan" /\ pc' = "autoWait"
  /\ initialised' = TRUE
  /\ UNCHANGED <<waited, keyFits, flags, device, events, losses, unreported>>

\* The end of begin() and of startSmartConfig().
AutoConnect ==
  \/ Wait("autoWait", connected, "mdns", "false")
  \/ dhcp /\ Command("mdns", mdnsAdvertiser, "true")
  \/ ~dhcp /\ Go("mdns", "true")

-----------------------------------------------------------------------------
(* reboot(), stop(), disconnect(), deleteProfiles(), setMacAddress() *)

reboot == Call("reboot") \/ wlan_stop("reboot", "start") \/ wlan_start("start", "true")

stop == Call("stop") \/ wlan_stop("stop", "true")

disconnect == Call("disconnect") \/ Checked("disconnect", wlan_disconnect, "true")

deleteProfiles ==
  \/ Call("profilesPolicy")
  \/ Checked("profilesPolicy", wlan_ioctl_set_connection_policy(FALSE), "profiles")
  \/ Checked("profiles", wlan_ioctl_del_profile, "true")

setMacAddress ==
  \/ Call("mac")
  \/ Checked("mac", netapp_config_mac_adrress, "reboot")

-----------------------------------------------------------------------------
(* startSmartConfig() *)

SmartReset ==
  /\ pc = "idle" /\ pc' = IF initialised THEN "smart" ELSE "false"
  /\ smartFinished' = FALSE /\ connected' = FALSE /\ dhcp' = FALSE
  /\ unreported' = {"connected", "dhcp"}
  /\ UNCHANGED <<initialised, waited, keyFits, device, events, losses>>

startSmartConfig ==
  \/ Checked("smart", wlan_ioctl_set_connection_policy(FALSE), "smartDelete")
  \/ Checked("smartDelete", wlan_ioctl_del_profile, "smartLeave")
  \/ connected /\ Checked("smartLeave", wlan_disconnect, "smartLeave")
  \/ ~connected /\ Go("smartLeave", "smartStop")
  \/ wlan_stop("smartStop", "smartStart") \/ wlan_start("smartStart", "smartEntry")
  \/ Checked("smartEntry", nvmem_create_entry, "smartKey")
  \/ Checked("smartKey", aes_write_key, "smartPrefix")
  \/ Checked("smartPrefix", wlan_smart_config_set_prefix, "smartConfig")
  \/ Checked("smartConfig", wlan_smart_config_start, "smartWait")
  \/ Wait("smartWait", smartFinished, "smartDone", "false")
  \/ Go("smartDone", "smartUse")
  \/ Go("smartDone", "smartProcess")  \* enableAES

\* Mutant: the device is not told to use the profile it has just learned.
SmartSkipsPolicy == Checked("smartUse", device, "smartStop2")

SmartUse == Checked("smartUse", wlan_ioctl_set_connection_policy(TRUE), "smartStop2")

\* wlan_smart_config_process() and the restart.
SmartConnect ==
  \/ SmartUse
  \/ Checked("smartProcess", wlan_add_profile, "smartUse")
  \/ wlan_stop("smartStop2", "smartStart2") \/ wlan_start("smartStart2", "smartMask2")
  \/ Checked("smartMask2", wlan_set_event_mask, "autoWait")

-----------------------------------------------------------------------------
(* connectOpen(), connectSecure() and connectToAP() *)

connect ==
  \/ Call("connectPolicy")
  \/ Checked("connectPolicy", wlan_ioctl_set_connection_policy(FALSE), "connect")
  \/ Checked("connect", wlan_connect, "true")

CallConnectToAP ==
  /\ pc = "idle" /\ initialised /\ pc' = "apScan"
  /\ keyFits' \in BOOLEAN
  /\ UNCHANGED <<initialised, waited, flags, device, events, losses, unreported>>

connectToAP ==
  \/ Command("apScan", wlan_ioctl_set_scan_params, "apScanned")
  \/ keyFits /\ Command("apScanned", wlan_ioctl_set_scan_params, "apPolicy")
  \/ ~keyFits /\ Command("apScanned", wlan_ioctl_set_scan_params, "apCheck")
  \/ Exchange("apPolicy", wlan_ioctl_set_connection_policy(FALSE), "apConnect", "apCheck")
  \/ Exchange("apConnect", wlan_connect, "apWait", "apCheck")
  \/ Wait("apWait", connected, "apCheck", "apCheck")
  \/ ~connected /\ Go("apCheck", "apScan")

ConnectedToAP ==
  /\ pc = "apCheck" /\ connected /\ pc' = "true" /\ keyFits' = TRUE
  /\ UNCHANGED <<initialised, waited, flags, device, events, losses, unreported>>

-----------------------------------------------------------------------------
Init ==
  /\ pc = "idle" /\ initialised = FALSE /\ waited = 0 /\ keyFits = TRUE
  /\ connected = FALSE /\ dhcp = FALSE /\ smartFinished = FALSE
  /\ \E auto, profile \in BOOLEAN :
       device = [on |-> FALSE, link |-> "down", address |-> FALSE, auto |-> auto,
                 profile |-> profile, smart |-> "off"]
  /\ events = <<>> /\ losses = 0 /\ unreported = {}

Program ==
  \/ begin \/ beginDone \/ AutoConnect \/ reboot \/ stop \/ disconnect \/ deleteProfiles
  \/ setMacAddress \/ SmartReset \/ startSmartConfig \/ SmartConnect \/ connect
  \/ CallConnectToAP \/ connectToAP \/ ConnectedToAP \/ Return

Next == Program \/ CC3000_UsynchCallback \/ Device

Spec == Init /\ [][Next]_vars
Fairness == WF_vars(pc # "idle" /\ Program) /\ WF_vars(CC3000_UsynchCallback)
FairSpec == Spec /\ Fairness

-----------------------------------------------------------------------------
(* Properties *)

Queued == {events[i] : i \in DOMAIN events}

\* checkConnected() and checkDHCP() follow the device: when no event about them
\* is under way they agree with it, unless the device was switched off while a
\* flag was set, by stop(), a restart or the init_spi() of a repeated begin(), or
\* startSmartConfig() cleared it by hand (unreported).
FlagsFollowDevice ==
  /\ Queued \cap {"CONNECT", "DISCONNECT"} = {} /\ "connected" \notin unreported
       => connected = (device.link \in {"up", "leaving"})
  /\ Queued \cap {"DHCP", "DISCONNECT"} = {} /\ "dhcp" \notin unreported
       => dhcp = device.address

\* The network learned by startSmartConfig() survives the restart that follows:
\* the device keeps a profile and the policy to use it, so that it joins by itself.
\* The exception is a wait that the late event of an earlier call has ended: then
\* the device is still listening for a configuration.
SmartConfigPersists ==
  [][pc = "smartStop2" /\ pc' # pc
       => device.auto /\ (device.profile \/ device.smart = "running")]_vars

\* The loops that wait for an event give up when it does not come; only
\* connectToAP() tries for ever.
WaitsEnd == pc \in {"smartWait", "autoWait"} ~> pc = "idle"
=============================================================================
