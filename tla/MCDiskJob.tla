------------------------------ MODULE MCDiskJob ------------------------------
(* A disk with a physical volume, its one logical volume and a file system *)
(* on a partition, or a disk with a free partition and one used for swap.  *)
(* A last partition that starts at sector 3 does not fit; in an int of     *)
(* eight values one that starts at 9 looks like one at 1, which does.      *)
EXTENDS DiskJob

Part(n, t)   == [name |-> n, lv |-> FALSE, fs |-> t]
Volume(n, t) == [name |-> n, lv |-> TRUE, fs |-> t]

MCLayouts ==
    {<<Part("2", "LVM2_member"), Volume("vg-a", "xfs"), Part("1", "ext4")>>,
     <<Part("1", "free"), Part("2", "swap")>>}
MCMounts == {{}, {"1", "vg-a"}}
=============================================================================
