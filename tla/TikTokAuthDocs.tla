--------------------------- MODULE TikTokAuthDocs ---------------------------
(* What src/api/tiktok-auth/README.md says of the service, stated over
   TikTokAuth. The code does not keep this promise; the run that checks it shows
   how. *)
EXTENDS TikTokAuth

(* README.md:9 and :243: a user is connected to one shop only, so the shop of
   a row and the shop its tokens open are the same. *)
RowIsOfOneShop ==
    \A u \in Users : row[u] # None => row[u].token.shop = row[u].shop
=============================================================================
