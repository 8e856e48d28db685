-------------------------- MODULE MCCommandHandlers --------------------------
(* The commands over the REQ socket with the lids they move; sweeps beside    *)
(* rotations; the handlers that keep a session or privacy.                    *)
EXTENDS CommandHandlers

MCActions == {[type |-> "none"], [type |-> "number", number |-> 256]}
MCAngles == {60004}
MCTimeouts == [lid |-> {"some", "forever"}, turn |-> {"some"}]
MCKinds == {{"lid"}, {"lid", "lids"}, {"turn", "sweep"}, {"turn", "home"},
            {"start", "end", "photo", "privacy", "sweep"},
            {"treat", "settings", "music", "silence", "start"}}
=============================================================================
