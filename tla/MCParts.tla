-------------------------------- MODULE MCParts --------------------------------
(***************************************************************************)
(* Small instances of the parts that share no state with the others:       *)
(* SdpRecords, DeviceInfo and FileBrowser.  Every behaviour is one of one  *)
(* of them.                                                                *)
(***************************************************************************)
EXTENDS SdpRecords, DeviceInfo, FileBrowser, TLC

VARIABLE part

\* A letter that is no digit, the blank, and a descriptor the quirk is for.
X    == 16
Gap  == 17
Epox == <<5, 7, 25, 0, 42, 0, 255, 21, 0, 38, 0, 255>>

Offer(rd, service, provider, desc) ==
  [vendor |-> 1, subclass |-> 64, parser |-> 1, hasRd |-> rd # <<>>, rd |-> rd,
   service |-> service, provider |-> provider, desc |-> desc]

\* Descriptors: with the pattern at its start, at its very end, inside and not at all;
\* too short; none; too long for the file.  Names: the service's, the provider's with
\* the description, the two beginning alike, one that is too long, one that begins
\* with a blank, one of digits.
MCOffers == {
  Offer(Epox \o <<1>>, <<X, 10>>, <<>>, <<>>),
  Offer(<<1>> \o Epox, <<>>, <<10, X>>, <<X>>),
  Offer(<<16>> \o Epox \o <<1>>, <<>>, <<1, 2, 3, 4, 5>>, <<1, 2, 3, 4, 5, 6>>),
  Offer(<<255>>, <<X>>, <<>>, <<>>),
  Offer(<<>>, <<10>>, <<>>, <<>>),
  Offer(Epox \o <<1, 2, 3, 4>>, <<X>>, <<>>, <<>>),
  Offer(Epox \o <<0>>, <<Gap, 10>>, <<>>, <<>>),
  Offer(Epox \o <<0>>, <<>>, <<10, 10, 10, 10, 10, 10, 10>>, <<X>>)}

Request(nosdp, nocheck, bootonly, encrypt, subclass) ==
  [nosdp |-> nosdp, nocheck |-> nocheck, bootonly |-> bootonly, encrypt |-> encrypt,
   subclass |-> subclass]
MCRequests == {
  Request(FALSE, TRUE, FALSE, TRUE, 0),
  Request(FALSE, TRUE, TRUE, FALSE, 64),
  Request(TRUE, TRUE, FALSE, TRUE, 0),
  Request(FALSE, FALSE, TRUE, TRUE, 64)}

\* The devices are alike.
DeviceSymmetry == Permutations(Devices)

MCMnt    == "/mnt"
MCParent == [q \in {"/", "/mnt", "/mnt/a", "/mnt/b.img", "/mnt/c", "/mnt/a/d.img", "/mnt/a/e"} |->
             CASE q \in {"/mnt/a/d.img", "/mnt/a/e"} -> "/mnt/a"
               [] q \in {"/", "/mnt"} -> "/"
               [] OTHER -> "/mnt"]
MCPaths  == DOMAIN MCParent
MCImages == {"/mnt/b.img", "/mnt/a/d.img"}

PartsInit ==
  /\ Init /\ InfoInit /\ BrowserInit
  /\ part \in {"records", "devices", "browser"}
  /\ part # "devices" => \A d \in Devices : offer[d] = CHOOSE o \in Offers : TRUE
  /\ part # "browser" => \A q \in Paths : q \notin {"/", Mnt} => fs[q] = "none"

PartsNext ==
  /\ UNCHANGED part
  /\ \/ part = "records" /\ Next        /\ UNCHANGED <<infoVars, browserVars>>
     \/ part = "devices" /\ InfoNext    /\ UNCHANGED <<vars, browserVars>>
     \/ part = "browser" /\ BrowserNext /\ UNCHANGED <<vars, infoVars>>

PartsSpec == PartsInit /\ [][PartsNext]_<<part, vars, infoVars, browserVars>>
=============================================================================
