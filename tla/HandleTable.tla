------------------------------ MODULE HandleTable ------------------------------
(***************************************************************************)
(* The table of handles in api/upnpapi.cpp: the control points ("clients") *)
(* and root devices that are registered, the counters beside the table and *)
(* the searches through it.  Every change is made under HandleLock(), the  *)
(* write lock of GlobalHndRWLock; what the other parts of the SDK do       *)
(* between two such sections is in the modules that extend this one.       *)
(***************************************************************************)
EXTENDS Integers, Sequences, FiniteSets, FiniteSetsExt

CONSTANTS
    NUM_HANDLE, \* handles are positive and smaller than this
    Family,     \* address families, AF_INET and AF_INET6
    MaxRegs     \* bound: registrations

ASSUME HandleAssumption ==
    /\ NUM_HANDLE \in Nat /\ NUM_HANDLE > 1
    /\ "none" \notin Family
    /\ IsFiniteSet(Family)
    /\ MaxRegs \in Nat

VARIABLES
    HandleTable,                \* what each handle stands for
    UpnpSdkClientRegistered,    \* how many clients there are
    UpnpSdkDeviceRegistered,    \* the flags ...V4 and ...V6, by family
    UpnpSdkInit,                \* 1 from UpnpInit2() to UpnpFinish()
    regs                        \* observed: registrations so far

tableVars == <<HandleTable, UpnpSdkClientRegistered, UpnpSdkDeviceRegistered>>
handleVars == <<tableVars, UpnpSdkInit, regs>>

Handle == 1..(NUM_HANDLE - 1)
NoHandle == -1

\* Handle_Info: a null pointer, a client with its searches or a device with
\* its family.  reg, the number of the registration, is observed: the code
\* cannot tell a handle from an earlier use of the same number.
Null == [HType |-> "HND_INVALID", DeviceAf |-> "none", SsdpSearchList |-> <<>>, reg |-> 0]
HandleInfo == [HType: {"HND_INVALID", "HND_CLIENT", "HND_DEVICE"},
               DeviceAf: Family \cup {"none"}, SsdpSearchList: Seq(Int), reg: Nat]

HandleTypeOK ==
    /\ HandleTable \in [Handle -> HandleInfo]
    /\ UpnpSdkClientRegistered \in Nat
    /\ UpnpSdkDeviceRegistered \in [Family -> {0, 1}]
    /\ UpnpSdkInit \in {0, 1}
    /\ regs \in 0..MaxRegs

HandleInit ==
    /\ HandleTable = [h \in Handle |-> Null]
    /\ UpnpSdkClientRegistered = 0
    /\ UpnpSdkDeviceRegistered = [af \in Family |-> 0]
    /\ UpnpSdkInit = 1
    /\ regs = 0

-----------------------------------------------------------------------------
(* Looking handles up *)

GetHandleInfo(h) == HandleTable[h].HType

FreeHandles == {h \in Handle : HandleTable[h] = Null}
GetFreeHandle == Min(FreeHandles)

Lowest(handles) == IF handles = {} THEN NoHandle ELSE Min(handles)

\* The registered client with the lowest handle.
GetClientHandleInfo == Lowest({h \in Handle : GetHandleInfo(h) = "HND_CLIENT"})

\* Devices of the family, whatever its flag says.
DevicesOf(af) ==
    {h \in Handle : GetHandleInfo(h) = "HND_DEVICE" /\ HandleTable[h].DeviceAf = af}

\* The next device of a family behind the handle start.  The flag of the
\* family is asked first.
GetDeviceHandleInfo(start, af) ==
    IF UpnpSdkDeviceRegistered[af] = 0 THEN NoHandle
    ELSE Lowest({h \in DevicesOf(af) : h > start})

-----------------------------------------------------------------------------
(* Registering *)

\* UpnpRegisterClient(): the counters are compared with the size of the table
\* although a flag stands for any number of devices.
RegisterClient ==
    /\ UpnpSdkInit = 1
    /\ UpnpSdkClientRegistered
         + MapThenSumSet(LAMBDA af : UpnpSdkDeviceRegistered[af], Family) < NUM_HANDLE - 1
    /\ FreeHandles # {} /\ regs < MaxRegs
    /\ regs' = regs + 1
    /\ HandleTable' = [HandleTable EXCEPT ![GetFreeHandle] =
                          [Null EXCEPT !.HType = "HND_CLIENT", !.reg = regs + 1]]
    /\ UpnpSdkClientRegistered' = UpnpSdkClientRegistered + 1
    /\ UNCHANGED <<UpnpSdkDeviceRegistered, UpnpSdkInit>>

\* UpnpRegisterRootDevice(), ...2() and ...3(): the description is downloaded
\* and parsed under the lock; when that fails the handle is free again.
RegisterRootDevice(af) ==
    /\ UpnpSdkInit = 1
    /\ FreeHandles # {} /\ regs < MaxRegs
    /\ regs' = regs + 1
    /\ HandleTable' = [HandleTable EXCEPT ![GetFreeHandle] =
                          [Null EXCEPT !.HType = "HND_DEVICE", !.DeviceAf = af,
                                       !.reg = regs + 1]]
    /\ UpnpSdkDeviceRegistered' = [UpnpSdkDeviceRegistered EXCEPT ![af] = 1]
    /\ UNCHANGED <<UpnpSdkClientRegistered, UpnpSdkInit>>

FreeHandle(h) == HandleTable' = [HandleTable EXCEPT ![h] = Null]

\* Mutant: the handle stays in use.
ClientStays(h) ==
    /\ HandleTable' = [HandleTable EXCEPT ![h].SsdpSearchList = <<>>]
    /\ UpnpSdkClientRegistered' = UpnpSdkClientRegistered
    /\ UNCHANGED UpnpSdkDeviceRegistered

\* The last section of UpnpUnRegisterClient(): the searches go with the handle.
FreeClient(h) ==
    /\ FreeHandle(h)
    /\ UpnpSdkClientRegistered' = UpnpSdkClientRegistered - 1
    /\ UNCHANGED UpnpSdkDeviceRegistered

\* The last section of UpnpUnRegisterRootDevice(): the flag of the family is
\* cleared, whatever other devices it stands for.
FreeRootDevice(h) ==
    /\ FreeHandle(h)
    /\ UpnpSdkDeviceRegistered' =
           [UpnpSdkDeviceRegistered EXCEPT ![HandleTable[h].DeviceAf] = 0]
    /\ UNCHANGED UpnpSdkClientRegistered
===============================================================================
