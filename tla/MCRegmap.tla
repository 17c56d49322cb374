----------------------------- MODULE MCRegmap -----------------------------
EXTENDS Regmap

MCReg       == {"amp", "caps", "coef", "power"}
MCWriteable == {"amp", "coef", "power"}
MCReadable  == {"amp", "caps", "power"}
MCVolatile  == {"power"}
MCRegion    == {{"amp", "caps"}, {"coef", "power"}}
=============================================================================
