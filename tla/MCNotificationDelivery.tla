----------------------- MODULE MCNotificationDelivery -----------------------
(* Constants of the instances of NotificationDelivery that TLC checks. *)
EXTENDS NotificationDelivery, TLC

CONSTANTS h1, h2, p1, p2, anna

OneNotification == {1}
TwoNotifications == {1, 2}
OneClient == [n \in Notifications |-> anna]
OneHandler == {h1}
TwoHandlers == {h1, h2}
OnePhone == {p1}
TwoPhones == {p1, p2}

SameNumber == {"resend"}
BothKinds == {"resend", "rephone"}

\* One report on each side of the statuses that webhooks and the worker write,
\* and one that the application does not know.
Progress == {"delivered", "read"}
AllKinds == {"delivered", "read", "failed", "noAccount", "yellowCard"}

CallSymmetry == {f @@ g : f \in Permutations(Handlers), g \in Permutations(Phones)}
=============================================================================
