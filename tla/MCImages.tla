----------------------------- MODULE MCImages -----------------------------
(* A Project of two services in one repository, one with a service of its    *)
(* own.  They have three images, one more than MaxImages.                    *)
EXTENDS Images

MCServices == [p \in {"shop", "blog"} |->
                 IF p = "shop" THEN <<"web", "api">> ELSE <<"site">>]

MCRepoOf ==
  [n \in {<<"shop", "web">>, <<"shop", "api">>, <<"blog", "site">>} |->
     IF n[1] = "shop" THEN "shop.git" ELSE "blog.git"]
=============================================================================
