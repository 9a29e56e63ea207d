----------------------------- MODULE MCService -----------------------------
(* One partition, /dev/sdb4, and its image file.                           *)
EXTENDS Service

MCDevices   == {"sdb4"}
MCImageFile == "sdb4.img"
MCSlashes   == [d \in MCDevices |-> 2]

(* Every method is called; the jobs that follow each other are a late      *)
(* reply, an early one, and a restore.                                     *)
MCMethods == AllMethods
MCAlone   == AllMethods \ {<<"xfsfs", "ptf">>, <<"btrfs", "ptp">>, <<"any", "restore">>}
MCNone    == {}
=============================================================================
