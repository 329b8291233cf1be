--------------------------- MODULE MCAlertDelivery ---------------------------
EXTENDS AlertDelivery

CONSTANTS anna, office

MCAddressees == {anna, office}

\* A person with the office's group to fall back on, and the other channels
\* behind them in the order the admin page saves; and both at once, after Slack,
\* as a config file may have it.  A save in between mixes the two: the person,
\* else the group.
MCRoutes ==
    {[channels |-> <<"lark", "webpush", "slack">>, email |-> anna, chat |-> NoTarget,
      mode |-> "dm", fallback |-> office],
     [channels |-> <<"slack", "lark">>, email |-> anna, chat |-> office,
      mode |-> "both", fallback |-> office]}

MCBuiltWith == [low |-> 0, clear |-> 2]
MCThresholds == {[low |-> 0, clear |-> 0], [low |-> 1, clear |-> 0]}
=============================================================================
