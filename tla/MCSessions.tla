----------------------------- MODULE MCSessions -----------------------------
(* The panel and the shop, open in one browser.                             *)
EXTENDS Sessions

PanelAndShop == {<<"b1", "panel", 1>>, <<"b1", "shop", 1>>}
===============================================================================
