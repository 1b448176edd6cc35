---------------------------- MODULE MCLinuxFiles ----------------------------
(* LinuxFiles for TLC: two slots of most kinds, a hwmon with two sensors   *)
(* and one with one; devices that have all of their files, only some of    *)
(* them, or one that cannot be parsed.                                     *)
EXTENDS LinuxFiles

MCSlots == [hwmon |-> {"hwmon0/temp1", "hwmon0/temp2", "hwmon1/temp1"},
            zone |-> {"zone0"},
            cpu |-> {"cpu0", "cpu1", "cpu10"}, disk |-> {"sda", "sda1"},
            mount |-> {"root", "data"}, nic |-> {"lo", "eth0"}]

MCBeside == [x \in UNION {MCSlots[k] : k \in DOMAIN MCSlots} |->
               IF x \in {"hwmon0/temp1", "hwmon0/temp2"}
               THEN {"hwmon0/temp1", "hwmon0/temp2"} ELSE {x}]

Hwmons == {[id |-> "coretemp", files |-> {"name", "input", "limits"}],
           [id |-> "coretemp", files |-> {"name"}],
           [id |-> "nvme", files |-> {"device", "device/name", "device/input"}]}

Zones == {[id |-> "acpitz", files |-> {"temp", "type", "critical", "high"},
           trips |-> {"critical", "high", "passive"}]}

CpuFiles == {"text", "row", "cpufreq", "cur", "max", "min", "core_id"}

Cpus == {[id |-> "a", files |-> CpuFiles, cur |-> 4, max |-> 6, min |-> 2,
          core |-> 0, package |-> 0, physical_id |-> TRUE],
         [id |-> "b", files |-> CpuFiles \ {"max"}, cur |-> 8, max |-> 8,
          min |-> 2, core |-> 1, package |-> 0, physical_id |-> TRUE],
         [id |-> "c", files |-> {"text", "row", "core_id"}, cur |-> 0, max |-> 0,
          min |-> 0,
          core |-> 0, package |-> 1, physical_id |-> TRUE],
         [id |-> "d", files |-> {"text"}, cur |-> 0, max |-> 0, min |-> 0,
          core |-> 0, package |-> 0, physical_id |-> FALSE]}

Table == {"text", "row"}

Disks == {[id |-> "disk", files |-> Table \union {"block"}],
          [id |-> "part", files |-> Table],
          [id |-> "dm", files |-> {"text", "block"}]}

Mounts == {[id |-> "sys", files |-> Table \union {"device"}, fs |-> "ext4"],
           [id |-> "tmp", files |-> Table \union {"device"}, fs |-> "tmpfs"],
           [id |-> "tank", files |-> Table \union {"device"}, fs |-> "zfs"],
           [id |-> "none", files |-> Table, fs |-> "xfs"],
           [id |-> "odd", files |-> {"text", "device"}, fs |-> "ext4"],
           [id |-> "latin1", files |-> {"device"}, fs |-> "ext4"]}

MCDevices == [hwmon |-> Hwmons, zone |-> Zones, cpu |-> Cpus, disk |-> Disks,
              mount |-> Mounts, nic |-> {[id |-> "card", files |-> Table],
                       [id |-> "odd", files |-> {"text"}]}]

=============================================================================
