------------------------------ MODULE Settings ------------------------------
(***************************************************************************)
(* The settings file and its reader.  A file gives values to some keys,    *)
(* the settings to all of them.  Numbers are integers here: text that is   *)
(* not one, or does not fit an int, reads as 0 (QVariant::toInt).          *)
(* Suppressed message types and the uplink's details are left out.         *)
(***************************************************************************)
EXTENDS Integers, Sequences

\* The struct's initialisers; "size" belongs to the array of sync servers.
Default ==
    [cycle |-> "weekly", beaconPort |-> 27900, doUplink |-> TRUE,
     listenPort |-> 28900, serverttl_s |-> 1800,
     doSync |-> TRUE, syncGames |-> "all", syncInterval_s |-> 1800,
     syncServers |-> << >>, size |-> 0,
     doCheck |-> TRUE, getExtendedInfo |-> TRUE,
     timeServerInterval_ms |-> 250, timeCheckerReset_s |-> 900,
     doMaintenance |-> TRUE, timeMaintenanceInterval_s |-> 300,
     hostname |-> "", adminName |-> "", contact |-> ""]

\* fields: how many parts the text of an array element has between commas.
DefaultServer == [fields |-> 3, remoteAddress |-> "master.333networks.com",
                  beaconPort |-> 27900, listenPort |-> 28900]
NoServer == [fields |-> 1, remoteAddress |-> "", beaconPort |-> 0, listenPort |-> 0]

\* writeSettings: "if sync is set, but no servers are listed, generate default line".
WrittenSettings == [Default EXCEPT !.syncServers = <<DefaultServer>>, !.size = 1]

\* Faulty variant: the int is kept as it is.
Kept(n) == n

MaxPort == 65535                                           \* of an unsigned short
UShort(n) == n % (MaxPort + 1)                             \* static_cast of an int
ToUShort(n) == IF n \in 0 .. MaxPort THEN n ELSE 0           \* QString::toUShort

IntKey == {"beaconPort", "listenPort", "serverttl_s", "syncInterval_s", "size",
           "timeServerInterval_ms", "timeCheckerReset_s", "timeMaintenanceInterval_s"}

IsElement(s) == s = [fields |-> s.fields, remoteAddress |-> s.remoteAddress,
                     beaconPort |-> s.beaconPort, listenPort |-> s.listenPort]

\* Any text that the file gives to a key is read as a value of the key's kind.
Readable(file) ==
    /\ \A key \in IntKey \cap DOMAIN file : file[key] \in Int
    /\ "syncServers" \in DOMAIN file =>
          \A i \in DOMAIN file.syncServers : IsElement(file.syncServers[i])

ValueOf(file, key) == IF key \in DOMAIN file THEN file[key] ELSE Default[key]

\* The elements 1 .. size of the array, also where the file has none.
Elements(file) ==
    LET listed == ValueOf(file, "syncServers")
    IN  [i \in 1 .. ValueOf(file, "size") |->
            IF i \in DOMAIN listed
            THEN [listed[i] EXCEPT !.beaconPort = ToUShort(@), !.listenPort = ToUShort(@)]
            ELSE NoServer]

GoodServer(s) == s.fields >= 3 /\ s.remoteAddress # "" /\ s.beaconPort > 0 /\ s.listenPort > 0

\* Faulty variant: an element that is not a server is skipped over.
SkipBadServers(elements) ==
    [servers |-> SelectSeq(elements, GoodServer), parseError |-> FALSE]

\* "else input error, do not continue parsing": parseError >= 0.
ParseServers(elements) ==
    LET bad   == {i \in DOMAIN elements : ~GoodServer(elements[i])}
        first == CHOOSE i \in bad : \A j \in bad : i <= j
    IN  IF bad = {} THEN [servers |-> elements, parseError |-> FALSE]
        ELSE [servers |-> SubSeq(elements, 1, first - 1), parseError |-> TRUE]

SyncServers(file) == ParseServers(Elements(file))

ReadSettings(file) ==
    [[key \in DOMAIN Default |-> ValueOf(file, key)] EXCEPT
        !.beaconPort = UShort(@), !.listenPort = UShort(@),
        !.syncServers = SyncServers(file).servers]

\* The sanity checks of the values a file gives; any that fails leaves init false.
Accepted(file) ==
    LET s == ReadSettings(file)
    IN  /\ s.beaconPort > 0 /\ s.listenPort > 0 /\ s.serverttl_s >= 0
        /\ s.syncGames # "" /\ s.syncInterval_s > 0 /\ ~SyncServers(file).parseError
        /\ s.timeServerInterval_ms >= 10 /\ s.timeCheckerReset_s >= 1
        /\ s.hostname # "" /\ s.adminName # "" /\ s.contact # ""
=============================================================================
