---- MODULE MCFulfilment ----
\* The statuses a desk sets by hand, and a bulk selection of the box.
EXTENDS Fulfilment

FewTargets == {"PREPARING", "CANCELLED", "REFUNDED"}
BoxOnly == {{<<"cycle", "box">>}}
====
