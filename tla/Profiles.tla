------------------------------ MODULE Profiles ------------------------------
(***************************************************************************)
(* The profiles of a process: the list it keeps of them (the end of        *)
(* analyzer/source.c), the configuration files it saves them to and loads  *)
(* them from when it starts (util/confdb.c), and the profiles of remote    *)
(* devices that device servers announce (analyzer/discovery.c).  The       *)
(* program edits one profile at a time; devices are plugged and unplugged; *)
(* the discovery thread handles one datagram per step, holding its mutex   *)
(* while it changes the list.                                              *)
(***************************************************************************)
EXTENDS Wire, SourceConfig, FiniteSets

CONSTANTS
  Hardware,      \* the arguments of the devices there may be, in the order
                 \* in which SoapySDR enumerates them
  Plugged,       \* what may be plugged in the beginning
  OldFiles,      \* files that may be on the disk in the beginning
  Edits,         \* <<field, value>>: what the program may set in a profile
  GainEdits,     \* <<name, value>>
  Announced,     \* <<profile, address of the sender>>
  Budgets        \* how many edits, plugs, datagrams and saves are explored

VARIABLES
  on,          \* the process runs
  hw,          \* plugged devices: from their arguments to their variant
  devices,     \* g_device_list
  mine,        \* the profile the program is editing
  configs,     \* config_list; a profile that was unregistered leaves a hole
  context,     \* objects of the configuration context "sources"
  disk,        \* the file in each of the paths of the context
  remotes,     \* g_remote_device_list
  saved,       \* profiles of the last save that ended, for the properties
  heard,       \* the last announcement of each device, for the properties
  fresh,       \* nothing was done since the process started
  left         \* what is left of the budget

pvars == <<on, hw, devices, mine, configs, context, disk, remotes, saved,
           heard, fresh, left>>

NoConfig == [type |-> -1]
NoObject == [class |-> "none"]
Unsaved  == <<NoConfig>>

Spend(what) == left[what] > 0 /\ left' = [left EXCEPT ![what] = @ - 1]

----------------------------------------------------------------------------
(***************************************************************************)
(* Configuration contexts.  A file is [whole, objects]: without all of its *)
(* bytes it cannot be parsed, and gives nothing.                           *)
(***************************************************************************)

Paths  == <<"local", "system">>
NoFile == [whole |-> FALSE, objects |-> <<>>]

suscan_config_context_put(list, object) == Append(list, object)

\* The objects go, their places stay.
suscan_config_context_flush(list) == [i \in DOMAIN list |-> NoObject]

suscan_object_to_yaml(list) == SelectSeq(list, LAMBDA o : o # NoObject)

suscan_object_from_yaml(file) == IF file.whole THEN file.objects ELSE <<>>

\* The objects of the files in all the paths.
suscan_config_context_scan(list) ==
  Reduce(LAMBDA l, p : l \o suscan_object_from_yaml(disk[p]), list, Paths)

suscan_sources_on_save(list) ==
  Reduce(LAMBDA l, c : IF c = NoConfig THEN l
                         ELSE suscan_config_context_put(l, suscan_source_config_to_object(c)),
           suscan_config_context_flush(list), configs)

\* The first path is truncated and written; the process may end, or the
\* disk fill up, before all of it is there.
suscan_config_context_save(whole) ==
  LET list == suscan_sources_on_save(context)
  IN /\ context' = list
     /\ disk' = [disk EXCEPT ![Head(Paths)] =
                   [whole |-> whole,
                    objects |-> IF whole THEN suscan_object_to_yaml(list) ELSE <<>>]]

----------------------------------------------------------------------------
(***************************************************************************)
(* The list of profiles.                                                   *)
(***************************************************************************)

suscan_source_config_register(list, c) == Append(list, c)

suscan_source_config_unregister(list, i) == [list EXCEPT ![i] = NoConfig]

suscan_source_config_lookup(list, label) ==
  {i \in DOMAIN list : list[i] # NoConfig /\ list[i].label = label}

Registered(list) == SelectSeq(list, LAMBDA c : c # NoConfig)

LoadObject(r, o) ==
  IF o.class # "source_config" THEN r
    ELSE Applied(LAMBDA n :
           [devices |-> n.devices,
            configs |-> IF n.ok THEN suscan_source_config_register(r.configs, n.c) ELSE r.configs],
           suscan_source_config_from_object(r.devices, hw, o))

\* Every object that can be parsed becomes a profile; without any there is
\* the default one.
suscan_load_sources(devs, objects) ==
  LET default(r) == IF r.configs # <<>> THEN r
                    ELSE [r EXCEPT !.configs = <<suscan_source_config_new_default(r.devices)>>]
  IN Applied(default, Reduce(LoadObject, [devices |-> devs, configs |-> <<>>], objects))

\* SoapySDRDevice_enumerate.
Enumerated == SelectSeq(Hardware, LAMBDA a : a \in DOMAIN hw)

\* What suscan_init_sources leaves of devices, profiles and objects.
suscan_init_sources ==
  LET objects == suscan_config_context_scan(<<>>)
      devs    == suscan_source_detect_devices(suscan_source_register_null_device, hw, Enumerated)
  IN ("context" :> objects) @@ suscan_load_sources(devs, objects)

----------------------------------------------------------------------------
(***************************************************************************)
(* Remote devices.                                                         *)
(***************************************************************************)

\* Only the keys of the first one are compared.
suscan_source_device_equals(d, e) ==
  /\ d.interface = e.interface
  /\ \A k \in DOMAIN d.args : SoapySDRKwargs_get(e.args, k) = d.args[k]

suscan_discovered_remote_device_lookup_ex_unsafe(devs, list, i) ==
  {k \in DOMAIN list : suscan_source_device_equals(devs[i], devs[list[k].device])}

\* The profile of a remote device, for the program to keep.
suscan_discovered_remote_device_make_config(devs, list, i) ==
  LET known == suscan_discovered_remote_device_lookup_ex_unsafe(devs, list, i)
  IN IF known = {} THEN NoConfig
     ELSE suscan_source_config_clone(list[FirstOf(known)].config, devs)

\* The profile takes the place of the one that was there, or is copied.
suscan_discovered_remote_device_update(devs, list, c) ==
  LET known == suscan_discovered_remote_device_lookup_ex_unsafe(devs, list, c.device)
  IN IF known # {} THEN [list EXCEPT ![FirstOf(known)].config = c]
     ELSE Append(list, [device |-> c.device, config |-> suscan_source_config_clone(c, devs)])

\* The name under which a profile is shown: who announces it is part of it.
DiscoveredName(c, d) ==
  suscan_source_config_get_label(c) \o SoapySDRKwargs_get(d.args, "host")
    \o SoapySDRKwargs_get(d.args, "port")

----------------------------------------------------------------------------
(***************************************************************************)
(* Steps.                                                                  *)
(***************************************************************************)

Start ==
  /\ on = TRUE
  /\ hw \in Plugged
  /\ \E f \in OldFiles : disk = [local |-> f, system |-> NoFile]
  /\ \E s \in {suscan_init_sources} :
       devices = s.devices /\ configs = s.configs /\ context = s.context
  /\ mine = NoConfig /\ remotes = <<>> /\ heard = <<>>
  /\ saved = Unsaved /\ fresh = FALSE
  /\ left \in Budgets

\* The process ends, or is killed, and starts again.
Restart ==
  /\ ~fresh /\ left.saves = 0
  /\ \E s \in {suscan_init_sources} :
       devices' = s.devices /\ configs' = s.configs /\ context' = s.context
  /\ mine' = NoConfig /\ remotes' = <<>> /\ heard' = <<>> /\ fresh' = TRUE
  /\ UNCHANGED <<on, hw, disk, saved, left>>

Edit(c) ==
  /\ Spend("edits") /\ mine' = c /\ fresh' = FALSE
  /\ UNCHANGED <<on, hw, devices, configs, context, disk, remotes, saved, heard>>

New == mine = NoConfig /\
  \/ Edit(suscan_source_config_new_default(devices))
  \/ Edit(suscan_source_config_new(devices, TYPE.FILE, FORMAT.AUTO))
  \/ \E i \in DOMAIN configs : configs[i] # NoConfig
                                 /\ Edit(suscan_source_config_clone(configs[i], devices))
  \/ \E i \in DOMAIN remotes :
       Edit(suscan_discovered_remote_device_make_config(devices, remotes, remotes[i].device))

SetDevice == mine # NoConfig /\ \E i \in DOMAIN devices \ {mine.device} :
  Edit(suscan_source_config_set_device(mine, devices, i))

SetGain == mine # NoConfig /\ \E e \in GainEdits :
  Edit(suscan_source_config_set_gain(mine, devices, e[1], e[2]))

Set == mine # NoConfig /\ \E e \in Edits :
  LET c == CASE e[1] = "label"     -> suscan_source_config_set_label(mine, e[2])
             [] e[1] = "path"      -> suscan_source_config_set_path(mine, e[2])
             [] e[1] = "antenna"   -> suscan_source_config_set_antenna(mine, e[2])
             [] e[1] = "average"   -> suscan_source_config_set_average(mine, e[2]).c
             [] e[1] = "interface" -> suscan_source_config_set_interface(mine, e[2]).c
             [] e[1] = "type"      -> suscan_source_config_set_type_format(mine, e[2][1], e[2][2])
             [] OTHER              -> suscan_source_config_set_value(mine, e[1], e[2])
  IN Edit(c) /\ mine' # mine

Register ==
  /\ mine # NoConfig
  /\ configs' = suscan_source_config_register(configs, mine)
  /\ mine' = NoConfig /\ fresh' = FALSE
  /\ UNCHANGED <<on, hw, devices, context, disk, remotes, saved, heard, left>>

\* The profile of a label is taken from the list.
Unregister ==
  /\ Spend("edits")
  /\ \E i \in DOMAIN configs :
       /\ configs[i] # NoConfig
       /\ configs' = suscan_source_config_unregister(configs,
                       FirstOf(suscan_source_config_lookup(configs, configs[i].label)))
  /\ fresh' = FALSE
  /\ UNCHANGED <<on, hw, devices, mine, context, disk, remotes, saved, heard>>

Save ==
  /\ Spend("saves")
  /\ \E whole \in BOOLEAN :
       /\ suscan_config_context_save(whole)
       /\ saved' = IF whole THEN Registered(configs) ELSE <<>>
  /\ fresh' = FALSE
  /\ UNCHANGED <<on, hw, devices, mine, configs, remotes, heard>>

\* A device is plugged, replaced by another variant, or unplugged.
Plug ==
  /\ Spend("plugs")
  /\ \E h \in Plugged : h # hw /\ hw' = h
  /\ fresh' = FALSE
  /\ UNCHANGED <<on, devices, mine, configs, context, disk, remotes, saved, heard>>

\* The program looks for devices again; SoapySDR may fail to enumerate them.
Detect ==
  /\ Spend("edits")
  /\ \/ devices' = suscan_source_detect_devices(devices, hw, Enumerated)
     \/ devices' = suscan_source_reset_devices(devices)
  /\ fresh' = FALSE
  /\ UNCHANGED <<on, hw, mine, configs, context, disk, remotes, saved, heard>>

\* The program shows what a device can do.
GetInfo ==
  /\ Spend("edits")
  /\ \E i \in DOMAIN devices :
       devices' = [devices EXCEPT ![i] = suscan_source_device_get_info(@, hw).d]
  /\ devices' # devices
  /\ fresh' = FALSE
  /\ UNCHANGED <<on, hw, mine, configs, context, disk, remotes, saved, heard>>

\* What is read of the datagrams.
Received == [p \in {a[1] : a \in Announced} |->
               Deserialize("profile", Serialize([what |-> "profile", v |-> p]), {})]

\* The discovery thread receives the announcement of a server.
suscan_device_net_discovery_thread(p, host) ==
  \E r \in {Received[p]} :
    IF ~r.ok THEN UNCHANGED <<devices, remotes, heard>>
    ELSE \E self \in {suscan_source_config_new_default(devices)} :
         \E n \in {suscan_source_config_deserialize_profile(devices, self, r.m, host)} :
         /\ devices' = n.devices
         /\ IF ~n.ok THEN UNCHANGED <<remotes, heard>>
            ELSE \E c \in {suscan_source_config_set_label(
                               n.c, DiscoveredName(n.c, n.devices[n.c.device]))} :
                   /\ remotes' = suscan_discovered_remote_device_update(n.devices, remotes, c)
                   /\ heard' = (c.device :> [profile |-> p, host |-> host]) @@ heard

Datagram ==
  /\ Spend("datagrams")
  /\ \E a \in Announced : suscan_device_net_discovery_thread(a[1], a[2])
  /\ fresh' = FALSE
  /\ UNCHANGED <<on, hw, mine, configs, context, disk, saved>>

PNext ==
  on /\ (Restart \/ New \/ SetDevice \/ SetGain \/ Set \/ Register \/ Unregister
          \/ Save \/ Plug \/ Detect \/ GetInfo \/ Datagram)

----------------------------------------------------------------------------
(***************************************************************************)
(* Properties.                                                             *)
(***************************************************************************)

GainNames(c) == {g.name : g \in ToSet(suscan_source_config_walk_gains(c))}

\* A profile and what came back of it: a file is opened in the same way and
\* ends at the same time, a radio is the same one with the same gains; the
\* frequencies are those that the file can hold.
ComesBack(a, b) ==
  LET radio == a.type = TYPE.SDR \/ suscan_source_config_is_remote(a)
  IN /\ a.type = b.type
     /\ \A f \in Texts \union Numbers :
          b[f] = IF f \in {"freq", "lnb_freq"} THEN Single(a[f]) ELSE a[f]
     /\ a.type = TYPE.FILE =>
          /\ suscan_source_config_sf_open(b) = suscan_source_config_sf_open(a)
          /\ suscan_source_config_file_is_valid(a) /\ a.samp_rate > 0 =>
               suscan_source_config_get_end_time(b) = suscan_source_config_get_end_time(a)
     /\ radio =>
          /\ b.args = a.args
          /\ devices[b.device].args = a.args /\ devices[b.device].interface = a.interface
          /\ GainNames(b) = GainNames(a)
          /\ \A g \in GainNames(a) :
               suscan_source_config_get_gain(b, g) = suscan_source_config_get_gain(a, g)

\* A process that starts has the profiles that the last one saved, in their
\* order and with all that they held, gains that no device has now included,
\* whatever is plugged then; after a save that did not end it has the
\* default one and nothing else.
SavedComesBack ==
  fresh /\ saved # Unsaved =>
    IF saved = <<>> THEN configs = <<suscan_source_config_new_default(devices)>>
    ELSE /\ Len(configs) = Len(saved)
         /\ \A i \in DOMAIN saved : ComesBack(saved[i], configs[i])

\* The profile that the program takes of a remote device is the last one
\* that its server announced, however often it did and whatever devices were
\* detected in between: its address, its fields, and every gain once, with
\* the announced value.
DiscoveredAsAnnounced ==
  \A i \in DOMAIN heard :
    LET c == suscan_discovered_remote_device_make_config(devices, remotes, i)
        p == heard[i].profile
    IN /\ c # NoConfig
       /\ c.args.host = heard[i].host /\ c.args.driver = p.driver /\ c.device = i
       /\ \A f \in Numbers \ {"start_time"} : c[f] = p[f]
       /\ \A k \in DOMAIN p.gain_list :
            /\ suscan_source_config_get_gain(c, p.gain_list[k].name) = p.gain_list[k].val
            /\ Cardinality(Named(suscan_source_config_walk_gains(c), p.gain_list[k].name)) = 1

\* What the program is told about a local device is what one and the same
\* device answered, when it was last asked: nothing of the one that was
\* plugged under the same arguments before.
InfoOfOneDevice ==
  \A i \in DOMAIN devices :
    suscan_source_device_is_populated(devices[i]) =>
      LET r == suscan_source_device_get_info(devices[i], hw)
          o == Offers[devices[i].args][devices[i].variant]
      IN /\ r.antennas = o.antennas
         /\ r.rates = IF o.listed THEN suscan_source_device_fix_rates(devices[i], o.rates)
                      ELSE <<>>
         /\ {<<g.name, g.min, g.max, g.def>> : g \in ToSet(r.gains)}
              = {<<g.name, g.min, g.max, g.def>> : g \in ToSet(o.gains)}

=============================================================================
