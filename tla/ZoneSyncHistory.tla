-------------------------- MODULE ZoneSyncHistory --------------------------
(* ZoneSync, remembering which zones this setup of the entry has seen. *)
EXTENDS ZoneSync

VARIABLE seen  \* zones some poll has listed since the entry was set up

zhvars == <<zvars, seen>>

ZHInit == ZInit /\ seen = {}

Watch == seen' = IF data' = None THEN {} ELSE seen \cup DOMAIN data'

ZHNext == ZNext /\ Watch

ZHSpec == ZHInit /\ [][ZHNext]_zhvars

\* A zone deleted on the panel while the integration is watching leaves the
\* registry: of the zones this setup has seen, only the listed ones stay.
SeenZonesRemoved == data # None => DOMAIN registry \cap seen \subseteq DOMAIN data

\* What quality_scale.yaml says of stale devices, "Zones removed on the panel
\* have their entities removed from the registry on the next poll": after a
\* poll, only listed zones are registered.
StaleZonesRemoved == data # None => DOMAIN registry \subseteq DOMAIN data
=============================================================================
